---------------------------- MODULE Spec2Model ----------------------------
(***************************************************************************)
(* A model of the PNG loader (src/src/png.rs) and of the raster compositor *)
(* (src/src/draw.rs) of aQaTL/file-explorer.                               *)
(*                                                                         *)
(* Bytes are the integers 0..255, byte strings are sequences of bytes, and *)
(* a cursor (State.current_byte) is a 0-based offset into such a sequence. *)
(***************************************************************************)
EXTENDS Integers, Sequences, FiniteSets, TLC

(***************************************************************************)
(* Bit and byte arithmetic                                                 *)
(***************************************************************************)

RECURSIVE Xor(_, _)
\* Bitwise exclusive or of two naturals.
Xor(a, b) ==
  IF a = 0 THEN b
  ELSE IF b = 0 THEN a
  ELSE (((a % 2) + (b % 2)) % 2) + 2 * Xor(a \div 2, b \div 2)

\* A u32 is held as its four bytes, most significant first: <<b3, b2, b1, b0>>
\* stands for b3 * 2^24 + b2 * 2^16 + b1 * 2^8 + b0 (the checker's integers
\* are narrower than 32 bits).
\* u32::from_be_bytes of the four bytes of s that start at 0-based offset i.
from_be_bytes(s, i) == << s[i + 1], s[i + 2], s[i + 3], s[i + 4] >>

\* u32::from_le_bytes of the four bytes of s that start at 0-based offset i.
from_le_bytes(s, i) == << s[i + 4], s[i + 3], s[i + 2], s[i + 1] >>

\* `n as usize` of a u32.  A value of 2^30 or more, which is past the end of
\* every buffer of the model, is held as 2^30.
as_usize(n) ==
  IF n[1] >= 64 THEN 1073741824
  ELSE n[1] * 16777216 + n[2] * 65536 + n[3] * 256 + n[4]

\* The u32 of a natural below 2^31.
to_u32(n) ==
  << (n \div 16777216) % 256, (n \div 65536) % 256, (n \div 256) % 256, n % 256 >>

\* The little-endian encoding of a 16-bit number (zlib stored-block lengths).
to_le16(n) == << n % 256, (n \div 256) % 256 >>

RECURSIVE Concat(_)
\* The concatenation of a sequence of byte strings.
Concat(ss) == IF ss = << >> THEN << >> ELSE Head(ss) \o Concat(Tail(ss))

\* The bytes s[from+1 .. to] (a Rust slice &s[from..to], 0-based, to exclusive).
Slice(s, from, to) == SubSeq(s, from + 1, to)

(***************************************************************************)
(* CRC32 (the crc32fast::Hasher of parse_block): the reflected IEEE CRC,   *)
(* polynomial 0xEDB88320, initial value and final xor 0xFFFFFFFF.          *)
(***************************************************************************)

\* F(v) with v computed once, before the call, as the program computes the
\* arguments of its calls.
Strict(F(_), v) == CHOOSE r \in { F(d) : d \in {v} } : TRUE

RECURSIVE CrcRounds(_, _, _)
\* k rounds of the bitwise CRC on the value hi * 2^16 + lo.
CrcRounds(hi, lo, k) ==
  IF k = 0 THEN << hi \div 256, hi % 256, lo \div 256, lo % 256 >>
  ELSE LET h == hi \div 2
           l == (lo \div 2) + ((hi % 2) * 32768)
           round(v) == CrcRounds(v[1], v[2], k - 1)
       IN  IF lo % 2 = 1 THEN Strict(round, << Xor(h, 60856), Xor(l, 33568) >>)
           ELSE Strict(round, << h, l >>)

CrcTable == [n \in 0..255 |-> CrcRounds(0, n, 8)]

RECURSIVE CrcUpdate(_, _, _)
\* hasher.update: folds the bytes s[i..] into the running value c.
CrcUpdate(c, s, i) ==
  IF i > Len(s) THEN c
  ELSE LET fold(t) == << t[1], Xor(t[2], c[1]), Xor(t[3], c[2]), Xor(t[4], c[3]) >>
           \* (the test only has d computed before the next byte is folded in)
           next(d) == IF d[1] >= 0 THEN CrcUpdate(d, s, i + 1) ELSE d
       IN  Strict(next, fold(CrcTable[Xor(c[4], s[i])]))

\* hasher.finalize after update(chunk_type) and update(chunk_data).
Crc32(chunk_type, chunk_data) ==
  LET finalize(c) == << 255 - c[1], 255 - c[2], 255 - c[3], 255 - c[4] >>
      update_data(c) == CrcUpdate(c, chunk_data, 1)
  IN  Strict(finalize,
             Strict(update_data, CrcUpdate(<< 255, 255, 255, 255 >>, chunk_type, 1)))

(***************************************************************************)
(* mod parser: the cursor reads.  Every read returns a record              *)
(*   [ok, err, cur, val]: whether it succeeded, the Error if it did not,   *)
(* state.current_byte after the call, and the value read.                  *)
(***************************************************************************)

Ok(cur, val) == [ok |-> TRUE, err |-> "none", cur |-> cur, val |-> val]

Err(cur, e) == [ok |-> FALSE, err |-> e, cur |-> cur, val |-> << >>]

get_u32(cur, data) ==
  IF cur + 4 > Len(data) THEN Err(cur, "FileEnd")
  ELSE Ok(cur + 4, from_be_bytes(data, cur))

\* get_u8 moving the cursor on when it fails.
get_u8_advancing(cur, data) ==
  IF cur + 1 > Len(data) THEN Err(cur + 1, "FileEnd")
  ELSE Ok(cur + 1, data[cur + 1])

get_u8(cur, data) ==
  IF cur + 1 > Len(data) THEN Err(cur, "FileEnd")
  ELSE Ok(cur + 1, data[cur + 1])

get_slice(cur, data, len) ==
  IF cur + len > Len(data) THEN Err(cur, "FileEnd")
  ELSE Ok(cur + len, Slice(data, cur, cur + len))

expected_png_signature == << 137, 80, 78, 71, 13, 10, 26, 10 >>

\* parse_magic comparing only the first four bytes of the signature.
parse_magic_short(cur, data) ==
  IF cur + 8 > Len(data) THEN Err(cur, "BadMagic")
  ELSE IF Slice(data, cur, cur + 4) = SubSeq(expected_png_signature, 1, 4)
    THEN Ok(cur + 8, << >>)
  ELSE Err(cur, "BadMagic")

parse_magic(cur, data) ==
  IF cur + 8 > Len(data) THEN Err(cur, "BadMagic")
  ELSE IF Slice(data, cur, cur + 8) = expected_png_signature THEN Ok(cur + 8, << >>)
  ELSE Err(cur, "BadMagic")

\* The four chunk type tags parse_block tells apart.
TagIHDR == << 73, 72, 68, 82 >>
TagIEND == << 73, 69, 78, 68 >>
TagIDAT == << 73, 68, 65, 84 >>

\* The IHDR of a block that is no header block.
NoIHDR ==
  [width |-> 0, height |-> 0, bit_depth |-> 0, color_type |-> 0,
   compression_method |-> 0, filter_method |-> 0, interlace_method |-> 0]

\* A PngBlockKind: IHDR(ihdr), IEND, IDAT(IDAT{data}) or Unknown.
BlockKind(kind, ihdr, data) == [kind |-> kind, ihdr |-> ihdr, data |-> data]

\* parse_ihdr returns (chunk_data, block) as val = <<chunk_data, block>>.
\* (each read starts where the read before it, if it succeeded, has left the
\* cursor: 4 bytes on for a u32, 1 byte on for a u8).
parse_ihdr(cur, data, expected_len) ==
  LET start == cur
      width == get_u32(cur, data)
      height == get_u32(cur + 4, data)
      bit_depth == get_u8(cur + 8, data)
      color_type == get_u8(cur + 9, data)
      compression_method == get_u8(cur + 10, data)
      filter_method == get_u8(cur + 11, data)
      interlace_method == get_u8(cur + 12, data)
      end == cur + 13
      parsed_bytes == end - start
  IN  IF ~width.ok THEN width
      ELSE IF ~height.ok THEN height
      ELSE IF ~bit_depth.ok THEN bit_depth
      ELSE IF ~color_type.ok THEN color_type
      ELSE IF ~compression_method.ok THEN compression_method
      ELSE IF ~filter_method.ok THEN filter_method
      ELSE IF ~interlace_method.ok THEN interlace_method
      ELSE IF expected_len # parsed_bytes THEN Err(end, "IncompleteBlock_IHDR")
          ELSE Ok(end,
                  << Slice(data, start, end),
                     BlockKind("IHDR",
                               [width |-> as_usize(width.val),
                                height |-> as_usize(height.val),
                                bit_depth |-> bit_depth.val,
                                color_type |-> color_type.val,
                                compression_method |-> compression_method.val,
                                filter_method |-> filter_method.val,
                                interlace_method |-> interlace_method.val],
                               << >>) >>)

\* parse_iend without the check of the declared length.
parse_iend_any_len(cur, expected_len) ==
  Ok(cur, << << >>, BlockKind("IEND", NoIHDR, << >>) >>)

parse_iend(cur, expected_len) ==
  IF expected_len # 0 THEN Err(cur, "IncompleteBlock_IEND")
  ELSE Ok(cur, << << >>, BlockKind("IEND", NoIHDR, << >>) >>)

parse_idat(cur, data, expected_len) ==
  LET d == get_slice(cur, data, expected_len)
  IN  IF ~d.ok THEN d
      ELSE Ok(d.cur, << d.val, BlockKind("IDAT", NoIHDR, d.val) >>)

\* The `_` arm taking the chunk for an end chunk.
parse_unknown_as_end(cur, data, len) ==
  LET d == get_slice(cur, data, len)
  IN  IF ~d.ok THEN d
      ELSE Ok(d.cur, << d.val, BlockKind("IEND", NoIHDR, << >>) >>)

\* The `_` arm of parse_block's match: any other type tag.
parse_unknown(cur, data, len) ==
  LET d == get_slice(cur, data, len)
  IN  IF ~d.ok THEN d
      ELSE Ok(d.cur, << d.val, BlockKind("Unknown", NoIHDR, << >>) >>)

\* The comparison of the checksums narrowed to their low 16 bits.
checksum_differs_low(calculated_checksum, checksum) ==
  << calculated_checksum[3], calculated_checksum[4] >> # << checksum[3], checksum[4] >>

\* calculated_checksum != checksum
checksum_differs(calculated_checksum, checksum) == calculated_checksum # checksum

\* parse_block returns the PngBlock as val.
\* (body is the result of the match on the type tag: the chunk data and the
\* block kind.)
parse_block(cur, data) ==
  LET len == get_u32(cur, data)
      chunk_type == get_slice(cur + 4, data, 4)
      checked(body) ==
        LET checksum == get_u32(body.cur, data)
        IN  IF ~body.ok THEN body
            ELSE IF ~checksum.ok THEN checksum
            ELSE IF checksum_differs(Crc32(chunk_type.val, body.val[1]), checksum.val)
              THEN Err(checksum.cur, "ChecksumFailed")
            ELSE Ok(checksum.cur,
                    [len |-> as_usize(len.val),
                     chunk_type |-> chunk_type.val,
                     checksum |-> checksum.val,
                     block |-> body.val[2]])
  IN  IF ~len.ok THEN len
      ELSE IF ~chunk_type.ok THEN chunk_type
      ELSE IF chunk_type.val = TagIHDR
        THEN Strict(checked, parse_ihdr(chunk_type.cur, data, as_usize(len.val)))
      ELSE IF chunk_type.val = TagIEND
        THEN Strict(checked, parse_iend(chunk_type.cur, as_usize(len.val)))
      ELSE IF chunk_type.val = TagIDAT
        THEN Strict(checked, parse_idat(chunk_type.cur, data, as_usize(len.val)))
      ELSE Strict(checked, parse_unknown(chunk_type.cur, data, as_usize(len.val)))

(***************************************************************************)
(* IDATBlockStream: the IDAT payloads of the block list as one byte source *)
(***************************************************************************)

Min(a, b) == IF a <= b THEN a ELSE b

\* The search taking the first block at or after index skip, whatever its kind.
find_idat_any(blocks, skip) ==
  IF skip >= Len(blocks) THEN -1 ELSE skip

RECURSIVE find_idat(_, _)
\* blocks.iter().enumerate().skip(skip).find_map(IDAT): the 0-based index of
\* the first IDAT block at or after index skip, or -1 (None).
find_idat(blocks, skip) ==
  IF skip >= Len(blocks) THEN -1
  ELSE IF blocks[skip + 1].block.kind = "IDAT" THEN skip
  ELSE find_idat(blocks, skip + 1)

\* The stream before IDATBlockStream::new has run.
NoStream ==
  [current_data_block |-> << >>, current_data_block_idx |-> 0, current_buf_idx |-> 0]

IDATBlockStream_new(blocks) ==
  LET data_block_idx == find_idat(blocks, 0)
  IN  IF data_block_idx = -1 THEN Err(0, "NoIDAT")
      ELSE Ok(0, [current_data_block |-> blocks[data_block_idx + 1].block.data,
                  current_data_block_idx |-> data_block_idx,
                  current_buf_idx |-> 0])

\* buf.write(&self.current_data_block[self.current_buf_idx..]) into a buffer
\* of buf_len bytes: the bytes copied.
buf_write(self, buf_len) ==
  SubSeq(self.current_data_block, self.current_buf_idx + 1,
         Min(self.current_buf_idx + buf_len, Len(self.current_data_block)))

\* One call of read with a buffer of buf_len bytes: the stream after the call
\* and the bytes written to the buffer (read returns Ok(Len(written))).
IDATBlockStream_read(self, blocks, buf_len) ==
  LET exhausted == self.current_buf_idx = Len(self.current_data_block)
      next_data_block_idx == find_idat(blocks, self.current_data_block_idx + 1)
  IN  IF exhausted /\ next_data_block_idx = -1
        THEN [stream |-> self, written |-> << >>]
      ELSE
        LET cur == IF exhausted
                     THEN [current_data_block |->
                             blocks[next_data_block_idx + 1].block.data,
                           current_data_block_idx |-> next_data_block_idx,
                           current_buf_idx |-> 0]
                   ELSE self
            written == buf_write(cur, buf_len)
        IN  [stream |-> [cur EXCEPT !.current_buf_idx = @ + Len(written)],
             written |-> written]

(***************************************************************************)
(* The inflate boundary (flate2's ZlibDecoder, read to the end).  The      *)
(* model decodes zlib streams made of stored deflate blocks: a 2-byte      *)
(* header, blocks of (final/type byte, LEN, NLEN, LEN bytes), and the      *)
(* Adler-32 of the output.  status is "ok", "corrupt" or "truncated" (the  *)
(* source ended before the stream did); data is the output produced.       *)
(***************************************************************************)

RECURSIVE AdlerSums(_, _, _, _)
AdlerSums(s, i, a, b) ==
  IF i > Len(s) THEN << b \div 256, b % 256, a \div 256, a % 256 >>
  ELSE LET a1 == (a + s[i]) % 65521
           b1 == (b + a1) % 65521
       IN  \* (the test only has the sums computed before the next byte is added)
           IF a1 + b1 >= 0 THEN AdlerSums(s, i + 1, a1, b1) ELSE << >>

Adler32(s) == AdlerSums(s, 1, 1, 0)

RECURSIVE InflateBlocks(_, _, _)
\* The stored blocks of z from 0-based offset p on, out being the output so far.
InflateBlocks(z, p, out) ==
  IF p + 5 > Len(z) THEN [status |-> "truncated", data |-> out]
  ELSE LET hdr == z[p + 1]
           len == z[p + 2] + (256 * z[p + 3])
           nlen == z[p + 4] + (256 * z[p + 5])
           stop == Min(p + 5 + len, Len(z))
           got == out \o Slice(z, p + 5, stop)
       IN  IF (hdr \div 2) % 4 # 0 \/ len + nlen # 65535
             THEN [status |-> "corrupt", data |-> out]
           ELSE IF p + 5 + len > Len(z) THEN [status |-> "truncated", data |-> got]
           ELSE IF hdr % 2 = 0 THEN InflateBlocks(z, p + 5 + len, got)
           ELSE IF p + 5 + len + 4 > Len(z) THEN [status |-> "truncated", data |-> got]
           ELSE IF Slice(z, p + 5 + len, p + 5 + len + 4) # Adler32(got)
             THEN [status |-> "corrupt", data |-> got]
           ELSE [status |-> "ok", data |-> got]

Inflate(z) ==
  IF Len(z) < 2 THEN [status |-> "truncated", data |-> << >>]
  ELSE IF z[1] % 16 # 8 \/ z[1] \div 16 > 7 \/ ((z[1] * 256) + z[2]) % 31 # 0
          \/ (z[2] \div 32) % 2 # 0
    THEN [status |-> "corrupt", data |-> << >>]
  ELSE InflateBlocks(z, 2, << >>)

\* deflater.read_to_end(&mut data).map_err(Error::Deflate): the results the
\* decoder can give for the compressed bytes z.  A source that ends inside the
\* stream is either reported as an error or ends the output where it stands,
\* depending on the decoder.
read_to_end(z) ==
  LET outcomes(r) ==
        IF r.status = "ok" THEN {Ok(0, r.data)}
        ELSE IF r.status = "corrupt" THEN {Err(0, "Deflate")}
        ELSE {Err(0, "Deflate"), Ok(0, r.data)}
  IN  outcomes(Inflate(z))

(***************************************************************************)
(* Scanline reconstruction                                                 *)
(***************************************************************************)

\* FilterType::try_from(v): the filter types are held as their numbers,
\* None = 0, Sub = 1, Up = 2, Average = 3, Paeth = 4.
FilterType_try_from(v) ==
  IF v > 4 THEN Err(0, "InvalidFilterType") ELSE Ok(0, v)

\* output_img.get(idx).copied().unwrap_or_default()
get_or_default(output_img, idx) ==
  IF idx < Len(output_img) THEN output_img[idx + 1] ELSE 0

\* (x_idx > 3).then(|| output_img.get(y_idx * len + (x_idx - 4)) ...)
\*     .unwrap_or_default()
left_of(output_img, line_len, y_idx, x_idx) ==
  IF x_idx > 3 THEN get_or_default(output_img, y_idx * line_len + (x_idx - 4)) ELSE 0

\* (y_idx > 0).then(|| output_img.get((y_idx - 1) * len + x_idx) ...)
\*     .unwrap_or_default()
above_of(output_img, line_len, y_idx, x_idx) ==
  IF y_idx > 0 THEN get_or_default(output_img, (y_idx - 1) * line_len + x_idx) ELSE 0

\* The three neighbours of the Paeth arm, read by plain indexing.
paeth_a(output_img, line_len, y_idx, x_idx) ==
  IF x_idx > 3 THEN output_img[y_idx * line_len + (x_idx - 4) + 1] ELSE 0

paeth_b(output_img, line_len, y_idx, x_idx) ==
  IF y_idx > 0 THEN output_img[(y_idx - 1) * line_len + x_idx + 1] ELSE 0

paeth_c(output_img, line_len, y_idx, x_idx) ==
  IF x_idx > 3 /\ y_idx > 0
    THEN output_img[(y_idx - 1) * line_len + (x_idx - 4) + 1]
  ELSE 0

abs(n) == IF n < 0 THEN -n ELSE n

\* paeth with strict comparisons: a tie no longer goes to the earlier neighbour.
paeth_strict(a, b, c) ==
  LET p == a + b - c
      pa == abs(p - a)
      pb == abs(p - b)
      pc == abs(p - c)
  IN  IF pa < pb /\ pa < pc THEN a
      ELSE IF pb < pc THEN b
      ELSE c

paeth(a, b, c) ==
  LET p == a + b - c
      pa == abs(p - a)
      pb == abs(p - b)
      pc == abs(p - c)
  IN  IF pa <= pb /\ pa <= pc THEN a
      ELSE IF pb <= pc THEN b
      ELSE c

\* decoded_byte with the Average sum reduced to a byte before it is halved.
decoded_byte_avg_wrapped(output_img, encoded_line, filter_type, y_idx, x_idx) ==
  LET n == Len(encoded_line)
      e == encoded_line[x_idx + 1]
  IN  CASE filter_type = 0 -> e
        [] filter_type = 1 -> (e + left_of(output_img, n, y_idx, x_idx)) % 256
        [] filter_type = 2 -> (e + above_of(output_img, n, y_idx, x_idx)) % 256
        [] filter_type = 3 ->
             (e + (((left_of(output_img, n, y_idx, x_idx)
                     + above_of(output_img, n, y_idx, x_idx)) % 256) \div 2)) % 256
        [] filter_type = 4 ->
             (e + paeth(paeth_a(output_img, n, y_idx, x_idx),
                        paeth_b(output_img, n, y_idx, x_idx),
                        paeth_c(output_img, n, y_idx, x_idx))) % 256

\* The byte decode_filter pushes for position x_idx of the line, output_img
\* being the buffer at that moment.
decoded_byte(output_img, encoded_line, filter_type, y_idx, x_idx) ==
  LET n == Len(encoded_line)
      e == encoded_line[x_idx + 1]
  IN  CASE filter_type = 0 -> e
        [] filter_type = 1 -> (e + left_of(output_img, n, y_idx, x_idx)) % 256
        [] filter_type = 2 -> (e + above_of(output_img, n, y_idx, x_idx)) % 256
        [] filter_type = 3 ->
             (e + ((left_of(output_img, n, y_idx, x_idx)
                    + above_of(output_img, n, y_idx, x_idx)) \div 2)) % 256
        [] filter_type = 4 ->
             (e + paeth(paeth_a(output_img, n, y_idx, x_idx),
                        paeth_b(output_img, n, y_idx, x_idx),
                        paeth_c(output_img, n, y_idx, x_idx))) % 256

RECURSIVE decode_from(_, _, _, _, _)
\* The loop `for x_idx in x_idx..encoded_line.len()` of a filter arm.
decode_from(output_img, encoded_line, filter_type, y_idx, x_idx) ==
  IF x_idx >= Len(encoded_line) THEN output_img
  ELSE LET \* (the test only has the push done before the next byte is decoded)
           next(pushed) ==
             IF Len(pushed) > 0
               THEN decode_from(pushed, encoded_line, filter_type, y_idx, x_idx + 1)
             ELSE pushed
       IN  Strict(next, Append(output_img,
                               decoded_byte(output_img, encoded_line, filter_type,
                                            y_idx, x_idx)))

\* decode_filter: output_img after the line has been reconstructed onto it.
decode_filter(output_img, encoded_line, filter_type, y_idx) ==
  decode_from(output_img, encoded_line, filter_type, y_idx, 0)

\* One pass of the scanline loop of load_from_path: val is the new raw_img.
scanline(cur, decompressed_img, width, raw_img, row_idx) ==
  LET byte == get_u8(cur, decompressed_img)
      filter_type == FilterType_try_from(decompressed_img[cur + 1])
      encoded_line == get_slice(cur + 1, decompressed_img, width * 4)
  IN  IF ~byte.ok THEN byte
      ELSE IF ~filter_type.ok THEN Err(byte.cur, filter_type.err)
      ELSE IF ~encoded_line.ok THEN encoded_line
      ELSE Ok(encoded_line.cur,
              decode_filter(raw_img, encoded_line.val, filter_type.val, row_idx))

(***************************************************************************)
(* Texture materialisation                                                 *)
(***************************************************************************)

\* The swap reversing all four bytes of every group, the alpha byte included.
reverse_rgba(raw_img) ==
  [i \in 1..Len(raw_img) |->
     IF i > 4 * (Len(raw_img) \div 4) THEN raw_img[i]
     ELSE raw_img[(4 * ((i - 1) \div 4)) + (4 - ((i - 1) % 4))]]

\* chunks_exact_mut(4).map(|chunk| &mut chunk[0..3]).for_each(reverse): the
\* first three bytes of every whole group of four are reversed.
reverse_rgb(raw_img) ==
  [i \in 1..Len(raw_img) |->
     LET k == (i - 1) % 4
     IN  IF i > 4 * (Len(raw_img) \div 4) THEN raw_img[i]
         ELSE IF k = 0 THEN raw_img[i + 2]
         ELSE IF k = 2 THEN raw_img[i - 2]
         ELSE raw_img[i]]

\* The texture before From<Png> has run.
NoTexture == [bitmap |-> << >>, width |-> 0, height |-> 0]

\* impl From<Png> for Texture: the byte buffer seen as u32 pixels of the
\* (little-endian) target; a pixel is <<A, R, G, B>>, its bytes from the top.
Texture_from(header, img_data) ==
  [bitmap |-> [i \in 1..(Len(img_data) \div 4) |-> from_le_bytes(img_data, 4 * (i - 1))],
   width |-> header.width,
   height |-> header.height]

(***************************************************************************)
(* The files load_from_path is run on: PNG files built chunk by chunk, and *)
(* the damaged variants of them.                                           *)
(***************************************************************************)

\* The longest buffer a reader hands to IDATBlockStream::read.
MaxBuf == 24

\* The buffer lengths of the read calls: one byte, two bytes, or MaxBuf.
BufLens == {1, 2, MaxBuf}

\* A chunk as the encoder writes it: length, tag, payload, CRC32.
Chunk(tag, payload) == to_u32(Len(payload)) \o tag \o payload \o Crc32(tag, payload)

\* A chunk with a declared length and a stored checksum of the caller's choice.
ChunkWith(len, tag, payload, checksum) == to_u32(len) \o tag \o payload \o checksum

\* The u32 u with bit k (0 = lowest) inverted.
FlipBit(u, k) ==
  [i \in 1..4 |-> IF i = 4 - (k \div 8) THEN Xor(u[i], 2 ^ (k % 8)) ELSE u[i]]

IhdrPayload(w, h, bit_depth, color_type, interlace) ==
  to_u32(w) \o to_u32(h) \o << bit_depth, color_type, 0, 0, interlace >>

IhdrChunk(w, h, bit_depth, color_type, interlace) ==
  Chunk(TagIHDR, IhdrPayload(w, h, bit_depth, color_type, interlace))

IendChunk == Chunk(TagIEND, << >>)

IdatChunk(payload) == Chunk(TagIDAT, payload)

\* A type tag the decoder does not know (tEXt), and a chunk of that type.
TagOther == << 116, 69, 88, 116 >>
OtherChunk == Chunk(TagOther, << 7, 9 >>)

\* The zlib stream of one final stored block holding raw.
ZlibStored(raw) ==
  << 120, 1, 1 >> \o to_le16(Len(raw)) \o to_le16(65535 - Len(raw)) \o raw
    \o Adler32(raw)

White == << 255, 255, 255, 255 >>
PixelP == << 17, 34, 51, 68 >>
PixelQ == << 200, 100, 250, 128 >>

\* Header sizes with decompressed scanline streams of that many rows.
GoodImages ==
  { [w |-> 1, h |-> 1, raw |-> << 0 >> \o White],
    [w |-> 1, h |-> 1, raw |-> << 1 >> \o PixelP],
    [w |-> 1, h |-> 2, raw |-> << 0 >> \o PixelP \o << 2 >> \o PixelQ],
    [w |-> 2, h |-> 1, raw |-> << 1 >> \o PixelP \o PixelQ],
    [w |-> 2, h |-> 2,
     raw |-> << 3 >> \o PixelP \o PixelQ \o << 4 >> \o PixelQ \o PixelP],
    [w |-> 0, h |-> 1, raw |-> << 0 >>],
    [w |-> 0, h |-> 0, raw |-> << >>] }

\* Streams with an unknown filter type, a short row, and more or fewer rows
\* than the height of the header.
BadImages ==
  { [w |-> 1, h |-> 1, raw |-> << 5 >> \o PixelP],
    [w |-> 1, h |-> 1, raw |-> << 0, 1, 2 >>],
    [w |-> 1, h |-> 1, raw |-> << >>],
    [w |-> 1, h |-> 1, raw |-> << 0 >> \o PixelP \o << 2 >> \o PixelQ],
    [w |-> 1, h |-> 2, raw |-> << 4 >> \o PixelP],
    [w |-> 2, h |-> 2, raw |-> << 1 >> \o PixelP \o PixelQ] }

ImageCases == GoodImages \cup BadImages

BaseImage == [w |-> 1, h |-> 1, raw |-> << 0 >> \o White]

\* The ways the compressed stream z is laid out in IDAT chunks between the
\* header and the end chunk.
IdatBodies(z) ==
  LET z1 == SubSeq(z, 1, 3)
      z2 == SubSeq(z, 4, Len(z))
  IN  { << IdatChunk(z) >>,
        << IdatChunk(z1), IdatChunk(z2) >>,
        << OtherChunk, IdatChunk(z1), OtherChunk, IdatChunk(z2), OtherChunk >>,
        << IdatChunk(z1), IdatChunk(<< >>), IdatChunk(z2) >>,
        << IdatChunk(<< >>), IdatChunk(z) >>,
        << IdatChunk(z), IdatChunk(<< >>) >> }

\* The same, and the layouts without any IDAT chunk.
Bodies(z) == IdatBodies(z) \cup { << OtherChunk >>, << >> }

PngFile(header, body, tail) == expected_png_signature \o header \o Concat(body) \o tail

BaseHeader == IhdrChunk(1, 1, 8, 6, 0)
BaseBody == << IdatChunk(ZlibStored(BaseImage.raw)) >>
BaseFile == PngFile(BaseHeader, BaseBody, IendChunk)

\* Every image in every chunk layout.
ImageFiles ==
  UNION { { PngFile(IhdrChunk(img.w, img.h, 8, 6, 0), body, IendChunk) :
              body \in Bodies(ZlibStored(img.raw)) } : img \in ImageCases }

\* The well-formed files: a good image in a layout with IDAT chunks.
ValidFiles ==
  UNION { { PngFile(IhdrChunk(img.w, img.h, 8, 6, 0), body, IendChunk) :
              body \in IdatBodies(ZlibStored(img.raw)) } : img \in GoodImages }

\* The file f with bit k of its last four bytes, the checksum of its end
\* chunk, inverted.
FlippedEnd(f, k) ==
  SubSeq(f, 1, Len(f) - 4) \o FlipBit(SubSeq(f, Len(f) - 3, Len(f)), k)

\* Well-formed files but for one bit of the checksum of the end chunk.
EndFlippedFiles ==
  { FlippedEnd(f, k) : f \in ValidFiles, k \in {0, 31} }
    \cup { FlippedEnd(f, k) :
             f \in { BaseFile, PngFile(BaseHeader, << OtherChunk >> \o BaseBody, IendChunk) },
             k \in 0..31 }

\* Missing, oversized and misplaced end chunks.
TailFiles ==
  LET tails == { << >>,
                 Chunk(TagIEND, << 0 >>),
                 IendChunk \o << 1, 2, 3 >>,
                 IendChunk \o OtherChunk,
                 IendChunk \o ChunkWith(0, TagOther, << >>, << 0, 0, 0, 0 >>) }
  IN  { PngFile(BaseHeader, body, tail) :
          body \in {BaseBody, << OtherChunk >> \o BaseBody}, tail \in tails }

\* A wrong checksum on a chunk other than the last one.
ChecksumFiles ==
  LET z == ZlibStored(BaseImage.raw)
      bad(tag, payload, k) ==
        ChunkWith(Len(payload), tag, payload, FlipBit(Crc32(tag, payload), k))
  IN  UNION { { PngFile(bad(TagIHDR, IhdrPayload(1, 1, 8, 6, 0), k), BaseBody, IendChunk),
                PngFile(BaseHeader, << bad(TagIDAT, z, k) >>, IendChunk),
                PngFile(BaseHeader, << bad(TagOther, << 7, 9 >>, k) >> \o BaseBody,
                        IendChunk) } : k \in {0, 9, 31} }

\* Damaged zlib streams: every truncation, a bad header, a bad length
\* complement, a bad Adler-32, bytes after the end of the stream.
ZlibFiles ==
  LET z == ZlibStored(BaseImage.raw)
      zs == { SubSeq(z, 1, n) : n \in 0..(Len(z) - 1) }
            \cup { [z EXCEPT ![1] = 121], [z EXCEPT ![6] = 0],
                   [z EXCEPT ![Len(z)] = (@ + 1) % 256], z \o << 0, 0 >> }
  IN  { PngFile(BaseHeader, << IdatChunk(c) >>, IendChunk) : c \in zs }

\* A signature with one byte altered, and every proper prefix of a good file.
SignatureFiles ==
  { [BaseFile EXCEPT ![i] = Xor(@, m)] : i \in 1..8, m \in {1, 128} }
    \cup { SubSeq(BaseFile, 1, n) : n \in 0..(Len(BaseFile) - 1) }

\* Files whose first chunk is not a well-formed header chunk.
FirstChunkFiles ==
  LET h == IhdrPayload(1, 1, 8, 6, 0)
      firsts == { OtherChunk,
                  ChunkWith(2, TagOther, << 7, 9 >>, << 0, 0, 0, 0 >>),
                  ChunkWith(200, TagOther, << 7, 9 >>, Crc32(TagOther, << 7, 9 >>)),
                  IdatChunk(ZlibStored(BaseImage.raw)),
                  IdatChunk(<< >>),
                  IendChunk,
                  Chunk(TagIEND, << 0 >>),
                  ChunkWith(0, TagIEND, << >>, << 0, 0, 0, 0 >>),
                  ChunkWith(12, TagIHDR, h, Crc32(TagIHDR, h)),
                  ChunkWith(14, TagIHDR, h \o << 0 >>, Crc32(TagIHDR, h \o << 0 >>)),
                  ChunkWith(13, TagIHDR, h, << 0, 0, 0, 0 >>),
                  ChunkWith(13, TagIHDR, SubSeq(h, 1, 9), << >>) }
      rests == { << >>, IendChunk, BaseHeader \o Concat(BaseBody) \o IendChunk }
  IN  { expected_png_signature \o first \o rest : first \in firsts, rest \in rests }

\* Headers of a format the decoder does not support, followed by anything.
UnsupportedFiles ==
  LET formats == { f \in [bit_depth : {8, 16}, color_type : {6, 2, 0}, interlace : {0, 1}] :
                     ~(f.bit_depth = 8 /\ f.color_type = 6 /\ f.interlace = 0) }
      follows == { << >>, << 1, 2, 3 >>,
                   ChunkWith(0, TagOther, << >>, << 0, 0, 0, 0 >>),
                   Concat(BaseBody) \o IendChunk,
                   Concat(BaseBody),
                   IendChunk }
  IN  { expected_png_signature
          \o IhdrChunk(1, 1, f.bit_depth, f.color_type, f.interlace) \o follow :
          f \in formats, follow \in follows }

InputFiles ==
  ImageFiles \cup EndFlippedFiles \cup TailFiles \cup ChecksumFiles \cup ZlibFiles \cup SignatureFiles
    \cup FirstChunkFiles \cup UnsupportedFiles

(***************************************************************************)
(* State                                                                   *)
(***************************************************************************)

VARIABLES
  pc,                \* where the run stands
  result,            \* "none" while running, then "Ok" or the Error returned
  data,              \* the bytes of the file (parser::Data)
  current_byte,      \* state.current_byte, the cursor into data
  ihdr,              \* the header of the first chunk
  blocks,            \* the Vec of chunks between the header and the end chunk
  stream,            \* the IDATBlockStream over blocks
  compressed,        \* the bytes the decoder has read from the stream
  decompressed_img,  \* the output of the decoder
  img_byte,          \* decompresseed_img_state.current_byte
  raw_img,           \* the reconstructed bytes, as the scanline loop leaves them
  row_idx,           \* the index of the next scanline
  img_data,          \* Png.img_data, the reconstructed bytes after the channel swap
  texture,           \* the Texture made from the Png
  bitmap_data,       \* the BitmapData of the window: the buffer draws go to
  call,              \* the draw call made last, with its arguments
  panicked           \* "none", or the panic that has ended the program

vars ==
  << pc, result, data, current_byte, ihdr, blocks, stream, compressed,
     decompressed_img, img_byte, raw_img, row_idx, img_data, texture,
     bitmap_data, call, panicked >>

\* The loader's variables from the scanline loop on.
imageVars == << decompressed_img, img_byte, raw_img, row_idx, img_data, texture >>

\* The variables of the compositor.
drawVars == << bitmap_data, call, panicked >>

\* BitmapData::default(): the zeroed struct, a buffer of no pixels.
NoBitmapData == [bitmap_memory |-> << >>, bitmap_width |-> 0, bitmap_height |-> 0]

\* No draw call made yet.
NoCall == [op |-> "none", pos_x |-> 0, pos_y |-> 0, width |-> 0, height |-> 0]

\* The compositor before any draw.
NoDraw ==
  /\ bitmap_data = NoBitmapData
  /\ call = NoCall
  /\ panicked = "none"

(***************************************************************************)
(* Png::load_from_path, a step at a time                                   *)
(***************************************************************************)

Init ==
  /\ pc = "magic"
  /\ result = "none"
  /\ data \in InputFiles
  /\ current_byte = 0
  /\ ihdr = NoIHDR
  /\ blocks = << >>
  /\ stream = NoStream
  /\ compressed = << >>
  /\ decompressed_img = << >>
  /\ img_byte = 0
  /\ raw_img = << >>
  /\ row_idx = 0
  /\ img_data = << >>
  /\ texture = NoTexture
  /\ NoDraw

\* `return Err(e)` (or the `?` of a failed call).
Return(e) == pc' = "done" /\ result' = e

\* parser::parse_magic(&mut state, &data)?
LoadMagic ==
  /\ pc = "magic"
  /\ \E r \in {parse_magic(current_byte, data)} :
         /\ current_byte' = r.cur
         /\ IF r.ok THEN pc' = "header" /\ result' = result ELSE Return(r.err)
  /\ UNCHANGED << drawVars, data, ihdr, blocks, stream, compressed, imageVars >>

\* The format check without the bit depth.
not_rgba(header) == header.color_type # 6

\* ihdr.color_type != 6 || ihdr.bit_depth != 8
not_rgba8(header) == header.color_type # 6 \/ header.bit_depth # 8

\* The first parse_block, the match on IHDR and the check of the format.
LoadHeader ==
  /\ pc = "header"
  /\ \E r \in {parse_block(current_byte, data)} :
         /\ current_byte' = r.cur
         /\ IF ~r.ok THEN Return(r.err) /\ ihdr' = ihdr
            ELSE IF r.val.block.kind # "IHDR" THEN Return("ExpectedIHDR") /\ ihdr' = ihdr
            ELSE /\ ihdr' = r.val.block.ihdr
                 /\ IF not_rgba8(r.val.block.ihdr) THEN Return("OnlyRGBA")
                    ELSE IF r.val.block.ihdr.interlace_method # 0
                      THEN Return("InterlaceNotSupported")
                    ELSE pc' = "chunks" /\ result' = result
  /\ UNCHANGED << drawVars, data, blocks, stream, compressed, imageVars >>

\* One pass of the chunk loop: parse_block, break on IEND, push otherwise.
LoadChunk ==
  /\ pc = "chunks"
  /\ \E r \in {parse_block(current_byte, data)} :
         /\ current_byte' = r.cur
         /\ IF ~r.ok THEN Return(r.err) /\ blocks' = blocks
            ELSE IF r.val.block.kind = "IEND"
              THEN pc' = "decompress" /\ result' = result /\ blocks' = blocks
            ELSE pc' = pc /\ result' = result /\ blocks' = Append(blocks, r.val)
  /\ UNCHANGED << drawVars, data, ihdr, stream, compressed, imageVars >>

\* decompress_img_data: IDATBlockStream::new(blocks)?
NewStream ==
  /\ pc = "decompress"
  /\ \E r \in {IDATBlockStream_new(blocks)} :
         IF r.ok THEN pc' = "inflate" /\ result' = result /\ stream' = r.val
         ELSE Return(r.err) /\ stream' = stream
  /\ UNCHANGED << drawVars, data, current_byte, ihdr, blocks, compressed, imageVars >>

\* One read of the stream by the decoder; a read of 0 bytes is the end of
\* the source.
StreamRead ==
  /\ pc = "inflate"
  /\ \E buf_len \in BufLens :
       \E r \in {IDATBlockStream_read(stream, blocks, buf_len)} :
           /\ stream' = r.stream
           /\ compressed' = compressed \o r.written
           /\ pc' = IF r.written = << >> THEN "deflate" ELSE pc
  /\ UNCHANGED << drawVars, result, data, current_byte, ihdr, blocks, imageVars >>

\* deflater.read_to_end(&mut data).map_err(Error::Deflate)?
Deflate ==
  /\ pc = "deflate"
  /\ \E r \in read_to_end(compressed) :
       IF r.ok THEN pc' = "scanlines" /\ result' = result /\ decompressed_img' = r.val
       ELSE Return(r.err) /\ decompressed_img' = decompressed_img
  /\ UNCHANGED << drawVars, data, current_byte, ihdr, blocks, stream, compressed,
                  img_byte, raw_img, row_idx, img_data, texture >>

\* One pass of the scanline loop.
Scanline ==
  /\ pc = "scanlines"
  /\ img_byte # Len(decompressed_img)
  /\ \E r \in {scanline(img_byte, decompressed_img, ihdr.width, raw_img, row_idx)} :
         /\ img_byte' = r.cur
         /\ IF r.ok THEN /\ pc' = pc /\ result' = result
                         /\ raw_img' = r.val
                         /\ row_idx' = row_idx + 1
            ELSE Return(r.err) /\ raw_img' = raw_img /\ row_idx' = row_idx
  /\ UNCHANGED << drawVars, data, current_byte, ihdr, blocks, stream, compressed,
                  decompressed_img, img_data, texture >>

\* The end of the scanline loop: the channel swap and Ok(Png{..}).
Finish ==
  /\ pc = "scanlines"
  /\ img_byte = Len(decompressed_img)
  /\ img_data' = reverse_rgb(raw_img)
  /\ pc' = "loaded"
  /\ result' = "Ok"
  /\ UNCHANGED << drawVars, data, current_byte, ihdr, blocks, stream, compressed,
                  decompressed_img, img_byte, raw_img, row_idx, texture >>

\* Texture::from(png) of load_textures.
MakeTexture ==
  /\ pc = "loaded"
  /\ texture' = Texture_from(ihdr, img_data)
  /\ pc' = "done"
  /\ UNCHANGED << drawVars, result, data, current_byte, ihdr, blocks, stream, compressed,
                  decompressed_img, img_byte, raw_img, row_idx, img_data >>

Next ==
  \/ LoadMagic
  \/ LoadHeader
  \/ LoadChunk
  \/ NewStream
  \/ StreamRead
  \/ Deflate
  \/ Scanline
  \/ Finish
  \/ MakeTexture

Spec == Init /\ [][Next]_vars

(***************************************************************************)
(* Properties of the loader                                                *)
(***************************************************************************)

\* The file starts with the eight bytes of the PNG signature.
SignatureMatches ==
  /\ Len(data) >= 8
  /\ \A i \in 1..8 : data[i] = << 137, 80, 78, 71, 13, 10, 26, 10 >>[i]

\* The number the four bytes at 0-based offset off of the file stand for.
DeclaredLen(off) ==
  data[off + 1] * 16777216 + data[off + 2] * 65536 + data[off + 3] * 256 + data[off + 4]

\* The chunk that starts at 0-based offset off lies wholly in the file, with
\* the payload length its type asks for.
ChunkComplete(off) ==
  /\ off + 12 <= Len(data)
  /\ off + 12 + DeclaredLen(off) <= Len(data)
  /\ SubSeq(data, off + 5, off + 8) = TagIHDR => DeclaredLen(off) = 13
  /\ SubSeq(data, off + 5, off + 8) = TagIEND => DeclaredLen(off) = 0

\* The checksum stored in the complete chunk at off is the CRC32 of its type
\* tag and payload.
ChunkChecksumGood(off) ==
  SubSeq(data, off + 9 + DeclaredLen(off), off + 12 + DeclaredLen(off))
    = Crc32(SubSeq(data, off + 5, off + 8),
            SubSeq(data, off + 9, off + 8 + DeclaredLen(off)))

\* C1: parse_block accepts the chunk at the cursor only if its stored checksum
\* is the CRC32 of type tag and payload, a complete chunk with another
\* checksum fails with ChecksumFailed, and a well-formed file with one bit of
\* the checksum of its end chunk inverted ends in ChecksumFailed, never in Ok.
C1_ChecksumChecked ==
  /\ pc \in {"header", "chunks"} =>
       \A r \in {parse_block(current_byte, data)} :
           /\ r.ok => ChunkComplete(current_byte) /\ ChunkChecksumGood(current_byte)
           /\ ChunkComplete(current_byte) /\ ~ChunkChecksumGood(current_byte)
                => ~r.ok /\ r.err = "ChecksumFailed"
  /\ data \in EndFlippedFiles =>
       /\ result \in {"none", "ChecksumFailed"}
       /\ pc \in {"magic", "header", "chunks", "done"}
       /\ pc = "done" => result = "ChecksumFailed"

\* C1 witness: a file damaged only in the checksum of its end chunk has been
\* refused after its other chunks were accepted.
C1_Witness ==
  /\ pc = "done"
  /\ data \in EndFlippedFiles
  /\ result = "ChecksumFailed"
  /\ Len(blocks) >= 2
  /\ current_byte = Len(data)

\* C2: a file that is shorter than the signature or differs from it in some
\* position ends in BadMagic with the cursor at 0 and no chunk parsed; the
\* cursor moves, by 8, only when the signature matches.
C2_BadMagic ==
  /\ pc = "magic" => current_byte = 0
  /\ ~SignatureMatches /\ pc # "magic" =>
       /\ pc = "done"
       /\ result = "BadMagic"
       /\ current_byte = 0
       /\ ihdr = NoIHDR
       /\ blocks = << >>
  /\ SignatureMatches => result # "BadMagic"
  /\ SignatureMatches /\ pc = "header" => current_byte = 8
  /\ current_byte > 0 => SignatureMatches /\ current_byte >= 8

\* C2 witness: a whole file whose signature is wrong in its last byte alone
\* has been refused.
C2_Witness ==
  /\ pc = "done"
  /\ result = "BadMagic"
  /\ Len(data) = Len(BaseFile)
  /\ SubSeq(data, 1, 7) = << 137, 80, 78, 71, 13, 10, 26 >>
  /\ data[8] # 10

\* The file has a good signature and the type tag of its first chunk is not
\* IHDR.
FirstChunkNotHeader ==
  /\ SignatureMatches
  /\ Len(data) >= 16
  /\ SubSeq(data, 13, 16) # TagIHDR

\* C3 as stated: whatever first chunk is not a header chunk, the load ends in
\* ExpectedIHDR.
C3_AlwaysExpectedIHDR ==
  FirstChunkNotHeader /\ pc = "done" => result = "ExpectedIHDR"

\* C3, amended: a first chunk of another type ends the load in ExpectedIHDR
\* when the chunk itself parses (it lies wholly in the file, an IEND has
\* length 0 and the checksum is right); otherwise the load ends in the error
\* of that chunk: IncompleteBlock for an IEND of another length, FileEnd for
\* a chunk the file does not hold, ChecksumFailed for a wrong checksum.
C3_ExpectedIHDR ==
  FirstChunkNotHeader /\ pc # "magic" /\ pc # "header" =>
    /\ pc = "done"
    /\ result =
         IF SubSeq(data, 13, 16) = TagIEND /\ DeclaredLen(8) # 0
           THEN "IncompleteBlock_IEND"
         ELSE IF ~ChunkComplete(8) THEN "FileEnd"
         ELSE IF ~ChunkChecksumGood(8) THEN "ChecksumFailed"
         ELSE "ExpectedIHDR"

\* C3 witness: a first chunk of an unknown type with a good checksum has been
\* answered with ExpectedIHDR.
C3_Witness ==
  /\ FirstChunkNotHeader
  /\ SubSeq(data, 13, 16) = TagOther
  /\ ChunkComplete(8) /\ ChunkChecksumGood(8)
  /\ pc = "done"
  /\ result = "ExpectedIHDR"

\* The first chunk of the file is a header chunk of 13 bytes with a good
\* checksum, after a good signature.
HeaderChunkGood ==
  /\ SignatureMatches
  /\ Len(data) >= 33
  /\ SubSeq(data, 9, 16) = << 0, 0, 0, 13 >> \o TagIHDR
  /\ ChunkChecksumGood(8)

\* The header chunk declares a format other than 8-bit RGBA, not interlaced
\* (bit depth, colour type and interlace method are bytes 24, 25 and 28 of
\* the file, counted from 0).
HeaderUnsupported == data[25] # 8 \/ data[26] # 6 \/ data[29] # 0

\* C4: a good header chunk of an unsupported format ends the load in OnlyRGBA
\* (colour type or bit depth) or InterlaceNotSupported, with the cursor at
\* the end of the header chunk, whatever follows it: no further chunk is
\* parsed, nothing is decompressed and no scanline is reconstructed.
C4_FailFast ==
  HeaderChunkGood /\ HeaderUnsupported =>
    /\ pc \in {"magic", "header", "done"}
    /\ pc = "done" =>
         /\ result = IF data[26] # 6 \/ data[25] # 8 THEN "OnlyRGBA"
                     ELSE "InterlaceNotSupported"
         /\ current_byte = 33
    /\ blocks = << >>
    /\ stream = NoStream
    /\ compressed = << >>
    /\ decompressed_img = << >>
    /\ raw_img = << >>
    /\ row_idx = 0

\* C4 witness: a 16-bit RGBA header followed by a whole image has been
\* refused at the header.
C4_Witness ==
  /\ HeaderChunkGood
  /\ data[25] = 16 /\ data[26] = 6 /\ data[29] = 0
  /\ Len(data) > 33 + 12
  /\ pc = "done"
  /\ result = "OnlyRGBA"

\* C6 as stated: a load that succeeds has reconstructed exactly `height` rows,
\* width * height * 4 bytes, and the texture holds width * height pixels.
C6_HeightRows ==
  result = "Ok" =>
    /\ row_idx = ihdr.height
    /\ img_byte = ihdr.height * (1 + ihdr.width * 4)
    /\ Len(raw_img) = ihdr.width * ihdr.height * 4
    /\ pc = "done" => Len(texture.bitmap) = texture.width * texture.height

(***************************************************************************)
(* IDATBlockStream on its own: any list of IDAT and unknown blocks, read    *)
(* with buffers of any of the lengths.                                     *)
(***************************************************************************)

\* The longest block list of StreamSpec.
MaxBlocks == 3

\* The block parse_block makes of a chunk with this tag and payload.
BlockOf(tag, payload) == parse_block(0, Chunk(tag, payload)).val

BlockChoices ==
  { BlockOf(TagOther, << 7, 9 >>),
    BlockOf(TagIDAT, << >>),
    BlockOf(TagIDAT, << 1 >>),
    BlockOf(TagIDAT, << 2, 3 >>),
    BlockOf(TagIDAT, << 4, 5, 6 >>) }

BlockLists == UNION { [1..n -> BlockChoices] : n \in 0..MaxBlocks }

StreamInit ==
  /\ pc = "decompress"
  /\ result = "none"
  /\ data = << >>
  /\ current_byte = 0
  /\ ihdr = NoIHDR
  /\ blocks \in BlockLists
  /\ stream = NoStream
  /\ compressed = << >>
  /\ decompressed_img = << >>
  /\ img_byte = 0
  /\ raw_img = << >>
  /\ row_idx = 0
  /\ img_data = << >>
  /\ texture = NoTexture
  /\ NoDraw

StreamNext == NewStream \/ StreamRead

StreamSpec == StreamInit /\ [][StreamNext]_vars

RECURSIVE IdatPayloads(_)
\* The payloads of the IDAT blocks of a block list, joined in file order.
IdatPayloads(bs) ==
  IF bs = << >> THEN << >>
  ELSE (IF Head(bs).block.kind = "IDAT" THEN Head(bs).block.data ELSE << >>)
         \o IdatPayloads(Tail(bs))

\* C5 as stated: when the first read returns 0, the bytes delivered so far
\* are the payloads of all IDAT blocks of the list, in file order.
C5_AllPayloadsDelivered ==
  pc = "deflate" => compressed = IdatPayloads(blocks)

(***************************************************************************)
(* The scanline loop on its own: decompressed streams of up to MaxRows     *)
(* rows, every row with any of the five filter types.                      *)
(***************************************************************************)

\* The most rows of a stream of ScanSpec.
MaxRows == 2

\* Filtered lines of two pixels.  Under the Paeth filter on a second row,
\* LineB over LineA meets neighbours at equal distance from the estimate;
\* under Average it meets a left and an upper neighbour whose sum passes 255.
LineA == << 3, 3, 250, 128, 2, 5, 200, 255 >>
LineB == << 2, 255, 100, 68, 10, 20, 30, 40 >>
LineW == White \o PixelQ

\* The filtered lines of an image width pixels wide.
ScanLines(width) == { SubSeq(l, 1, 4 * width) : l \in {LineA, LineB, LineW} }

\* A row of the decompressed stream: the filter type byte, then the line.
ScanRows(width) == { << f >> \o l : f \in 0..4, l \in ScanLines(width) }

\* Streams of whole rows for images 1 and 2 pixels wide, the header giving
\* the number of rows as its height.
GoodScans ==
  UNION { UNION { { [w |-> width, h |-> n, raw |-> Concat(rs)] :
                      rs \in [1..n -> ScanRows(width)] } : n \in 0..MaxRows } :
          width \in {1, 2} }

\* Streams with a filter type that does not exist, and with a short last row.
BadScans ==
  { [w |-> 1, h |-> 2, raw |-> << 1 >> \o PixelP \o << 5 >> \o PixelQ],
    [w |-> 1, h |-> 2, raw |-> << 2 >> \o PixelP \o << 3, 1, 2 >>],
    [w |-> 2, h |-> 1, raw |-> << 4 >> \o PixelP],
    [w |-> 1, h |-> 1, raw |-> << 7 >>] }

ScanInit ==
  /\ pc = "scanlines"
  /\ result = "none"
  /\ data = << >>
  /\ current_byte = 0
  /\ blocks = << >>
  /\ stream = NoStream
  /\ compressed = << >>
  /\ \E c \in GoodScans \cup BadScans :
       /\ ihdr = [NoIHDR EXCEPT !.width = c.w, !.height = c.h,
                                !.bit_depth = 8, !.color_type = 6]
       /\ decompressed_img = c.raw
  /\ img_byte = 0
  /\ raw_img = << >>
  /\ row_idx = 0
  /\ img_data = << >>
  /\ texture = NoTexture
  /\ NoDraw

ScanNext == Scanline \/ Finish \/ MakeTexture

ScanSpec == ScanInit /\ [][ScanNext]_vars

\* The length of a line, the filter type byte of row y, filtered byte x of
\* row y and reconstructed byte x of row y (all indices from 0).
LineLen == 4 * ihdr.width
RowFilter(y) == decompressed_img[(y * (1 + LineLen)) + 1]
Filtered(y, x) == decompressed_img[(y * (1 + LineLen)) + 2 + x]
Reconstructed(y, x) == raw_img[(y * LineLen) + x + 1]

\* The neighbours of byte x of row y among the reconstructed bytes: left,
\* above and above-left, 0 where the image has none.
NeighbourA(y, x) == IF x >= 4 THEN Reconstructed(y, x - 4) ELSE 0
NeighbourB(y, x) == IF y >= 1 THEN Reconstructed(y - 1, x) ELSE 0
NeighbourC(y, x) == IF x >= 4 /\ y >= 1 THEN Reconstructed(y - 1, x - 4) ELSE 0

\* The predictor of the filter types None, Sub, Up and Average.
Predictor(filter_type, a, b) ==
  CASE filter_type = 0 -> 0
    [] filter_type = 1 -> a
    [] filter_type = 2 -> b
    [] filter_type = 3 -> (a + b) \div 2

\* C7: every byte of every reconstructed row of filter type None, Sub, Up or
\* Average is (filtered + predictor) mod 256, the predictor being 0, a, b or
\* floor((a + b) / 2) with a and b the reconstructed bytes to the left and
\* above (0 where missing).
C7_Reconstruction ==
  \A y \in 0..(row_idx - 1) : \A x \in 0..(LineLen - 1) :
    RowFilter(y) \in 0..3 =>
      Reconstructed(y, x)
        = (Filtered(y, x) + Predictor(RowFilter(y), NeighbourA(y, x), NeighbourB(y, x))) % 256

\* C7 witness: a second row of filter type Up has been reconstructed over a
\* first row of type Sub, from the decoded bytes of the first row where these
\* differ from its filtered bytes.
C7_Witness ==
  /\ row_idx = 2
  /\ ihdr.width = 2
  /\ RowFilter(0) = 1
  /\ RowFilter(1) = 2
  /\ \E x \in 4..7 :
       /\ Reconstructed(0, x) # Filtered(0, x)
       /\ Reconstructed(1, x) = (Filtered(1, x) + Reconstructed(0, x)) % 256
       /\ Reconstructed(1, x) # (Filtered(1, x) + Filtered(0, x)) % 256

\* Byte values for the neighbours of the Paeth predictor.
PaethSamples == {0, 1, 2, 3, 5, 128, 255}

\* The distance of a neighbour's value v from the estimate a + b - c.
PaethDistance(a, b, c, v) == abs((a + b - c) - v)

\* The neighbour nearest to the estimate: a if no other is nearer, else b if
\* c is not nearer than b, else c.
PaethNearest(a, b, c) ==
  IF PaethDistance(a, b, c, a) <= PaethDistance(a, b, c, b)
       /\ PaethDistance(a, b, c, a) <= PaethDistance(a, b, c, c) THEN a
  ELSE IF PaethDistance(a, b, c, b) <= PaethDistance(a, b, c, c) THEN b
  ELSE c

\* C8: paeth returns the nearest neighbour, ties going to a before b and to b
\* before c, and every byte of a reconstructed Paeth row is
\* (filtered + paeth(a, b, c)) mod 256 for its left, upper and upper-left
\* reconstructed neighbours (0 where missing).
C8_Paeth ==
  /\ \A a \in PaethSamples, b \in PaethSamples, c \in PaethSamples :
       paeth(a, b, c) = PaethNearest(a, b, c)
  /\ \A y \in 0..(row_idx - 1) : \A x \in 0..(LineLen - 1) :
       RowFilter(y) = 4 =>
         Reconstructed(y, x)
           = (Filtered(y, x)
                + PaethNearest(NeighbourA(y, x), NeighbourB(y, x), NeighbourC(y, x))) % 256

\* Byte x of row y has neighbours u and v of different values at the same
\* distance from the estimate, no neighbour being nearer.
PaethTie(y, x, u, v) ==
  /\ u # v
  /\ PaethDistance(NeighbourA(y, x), NeighbourB(y, x), NeighbourC(y, x), u)
       = PaethDistance(NeighbourA(y, x), NeighbourB(y, x), NeighbourC(y, x), v)
  /\ \A n \in {NeighbourA(y, x), NeighbourB(y, x), NeighbourC(y, x)} :
       PaethDistance(NeighbourA(y, x), NeighbourB(y, x), NeighbourC(y, x), u)
         <= PaethDistance(NeighbourA(y, x), NeighbourB(y, x), NeighbourC(y, x), n)

\* C8 witness: a second row of filter type Paeth has been reconstructed with
\* a tie between a and c settled for a at one byte and a tie between b and c
\* settled for b at another.
C8_Witness ==
  /\ row_idx = 2
  /\ ihdr.width = 2
  /\ RowFilter(1) = 4
  /\ \E x \in 4..7 :
       /\ PaethTie(1, x, NeighbourA(1, x), NeighbourC(1, x))
       /\ Reconstructed(1, x) = (Filtered(1, x) + NeighbourA(1, x)) % 256
  /\ \E x \in 4..7 :
       /\ PaethTie(1, x, NeighbourB(1, x), NeighbourC(1, x))
       /\ Reconstructed(1, x) = (Filtered(1, x) + NeighbourB(1, x)) % 256

\* C9: pixel i of the texture of a loaded image is <<A, R, G, B>> (that is
\* (A<<24)|(R<<16)|(G<<8)|B) for the reconstructed bytes R, G, B, A at
\* 4i..4i+3, the bitmap has a quarter as many elements as there are bytes,
\* the channel swap leaves every alpha byte in place, and the one pixel
\* FF FF FF FF gives the one pixel 0xFFFFFFFF.
C9_PackedPixels ==
  /\ pc = "loaded" \/ (pc = "done" /\ result = "Ok") =>
       /\ Len(img_data) = Len(raw_img)
       /\ \A i \in 0..((Len(raw_img) \div 4) - 1) : img_data[(4 * i) + 4] = raw_img[(4 * i) + 4]
  /\ pc = "done" /\ result = "Ok" /\ Len(raw_img) % 4 = 0 =>
       /\ Len(texture.bitmap) * 4 = Len(raw_img)
       /\ \A i \in 0..(Len(texture.bitmap) - 1) :
            texture.bitmap[i + 1]
              = << raw_img[(4 * i) + 4], raw_img[(4 * i) + 1],
                   raw_img[(4 * i) + 2], raw_img[(4 * i) + 3] >>
       /\ raw_img = << 255, 255, 255, 255 >> => texture.bitmap = << << 255, 255, 255, 255 >> >>

\* C9 witness: a texture of several pixels has been made, one of them with
\* red, blue and alpha bytes that all differ.
C9_Witness ==
  /\ pc = "done"
  /\ result = "Ok"
  /\ Len(texture.bitmap) >= 2
  /\ \E i \in 0..(Len(texture.bitmap) - 1) :
       /\ raw_img[(4 * i) + 1] # raw_img[(4 * i) + 3]
       /\ raw_img[(4 * i) + 1] # raw_img[(4 * i) + 4]
       /\ raw_img[(4 * i) + 3] # raw_img[(4 * i) + 4]
       /\ texture.bitmap[i + 1][1] = raw_img[(4 * i) + 4]
       /\ texture.bitmap[i + 1][2] = raw_img[(4 * i) + 1]

(***************************************************************************)
(* The raster compositor (src/src/draw.rs)                                 *)
(*                                                                         *)
(* A pixel is a u32 held as its bytes <<A, R, G, B>> from the top.  A      *)
(* usize is held as the integer congruent to it modulo 2^64 that is        *)
(* nearest to 0: usize::MAX is -1, and a negative number stands for a      *)
(* value above every buffer and texture size.                              *)
(***************************************************************************)

usize_MAX == -1

\* a + b on usize: the wrapped sum, and whether the true sum passes usize::MAX.
usize_add(a, b) ==
  [val |-> a + b,
   overflow |-> (a < 0 /\ b < 0) \/ ((a < 0) # (b < 0) /\ a + b >= 0)]

\* a < b on usize.
usize_lt(a, b) == IF (a < 0) = (b < 0) THEN a < b ELSE b < 0

\* a.min(b) on usize.
usize_min(a, b) == IF usize_lt(a, b) THEN a ELSE b

\* The values of the range from..to.
Range(from, to) == IF usize_lt(from, to) THEN from..(to - 1) ELSE {}

RECURSIVE BitLen(_)
\* The number of binary digits of n.
BitLen(n) == IF n = 0 THEN 0 ELSE 1 + BitLen(n \div 2)

RECURSIVE CeilPow2(_, _)
\* The least power of two that is p or a doubling of it and is >= n.
CeilPow2(p, n) == IF p >= n THEN p ELSE CeilPow2(2 * p, n)

\* An f32 is held as [m, s], standing for m * 2^-s, with m of at most 24
\* significant binary digits.

RECURSIVE f32_quotient(_, _, _)
\* The long division by 255.0 carried on to 24 significant digits of the
\* quotient q: <<q, r, s>> with dividend * 2^s = 255 * q + r.
f32_quotient(q, r, s) ==
  IF q >= 8388608 THEN << q, r, s >>
  ELSE IF 2 * r >= 255 THEN f32_quotient((2 * q) + 1, (2 * r) - 255, s + 1)
  ELSE f32_quotient(2 * q, 2 * r, s + 1)

\* (a as f32) / 255.0 for a byte a, rounded to nearest.
f32_div_255(a) ==
  LET rounded(d) == [m |-> IF 2 * d[2] > 255 THEN d[1] + 1 ELSE d[1], s |-> d[3]]
  IN  IF a = 0 THEN [m |-> 0, s |-> 0]
      ELSE rounded(f32_quotient(a \div 255, a % 255, 0))

\* t * d for an f32 t in 0..1 and a whole number d in 0..255, rounded to
\* nearest, ties to even.  The product t.m * d is hi * 2^12 + lo.
f32_mul(t, d) ==
  LET hi == ((t.m \div 4096) * d) + (((t.m % 4096) * d) \div 4096)
      lo == ((t.m % 4096) * d) % 4096
      rounded(sh) ==
        LET q == (hi * (2 ^ (12 - sh))) + (lo \div (2 ^ sh))
            rem == lo % (2 ^ sh)
        IN  [m |-> IF sh > 0 /\ (2 * rem > 2 ^ sh \/ (2 * rem = 2 ^ sh /\ q % 2 = 1))
                     THEN q + 1 ELSE q,
             s |-> t.s - sh]
  IN  rounded(IF BitLen(hi) > 12 THEN BitLen(hi) - 12 ELSE 0)

\* (v0 + p) as u32, or (v0 - p) as u32 if negative, for a byte v0 and an f32
\* p in 0..255 (p <= v0 if negative): the sum is rounded to nearest, ties to
\* even, then truncated.  With i the whole part of the exact sum and f its
\* fraction in units of 2^-25 (rounded down), the rounded sum reaches i + 1
\* when the fraction is within half a unit in the last place of i + 1.
f32_add_as_u32(v0, negative, p) ==
  LET xi == IF p.s <= 30 THEN p.m \div (2 ^ p.s) ELSE 0
      xf == IF p.s <= 30 THEN p.m % (2 ^ p.s) ELSE p.m
      floor25 == IF p.s >= 25 THEN xf \div (2 ^ (p.s - 25)) ELSE xf * (2 ^ (25 - p.s))
      ceil25 ==
        IF p.s >= 25 THEN (xf + (2 ^ (p.s - 25)) - 1) \div (2 ^ (p.s - 25))
        ELSE xf * (2 ^ (25 - p.s))
      truncated(i, f) == IF f >= 33554432 - CeilPow2(1, i + 1) THEN i + 1 ELSE i
  IN  IF p.m = 0 THEN v0
      ELSE IF ~negative THEN truncated(v0 + xi, floor25)
      ELSE IF xf = 0 THEN truncated(v0 - xi, 0)
      ELSE truncated(v0 - xi - 1, 33554432 - ceil25)

\* lerp(v0, v1, t) as u32 for bytes v0 and v1: v0 + t * (v1 - v0) in f32
\* arithmetic, then the cast.
lerp(v0, v1, t) == f32_add_as_u32(v0, v1 < v0, f32_mul(t, abs(v1 - v0)))

\* The pixel draw_texture stores over *pixel for the texture's bitmap_pixel.
blend(pixel, bitmap_pixel) ==
  LET blended(alpha) ==
        << 0,
           lerp(pixel[2], bitmap_pixel[2], alpha),
           lerp(pixel[3], bitmap_pixel[3], alpha),
           lerp(pixel[4], bitmap_pixel[4], alpha) >>
  IN  blended(f32_div_255(bitmap_pixel[1]))

\* The outcome of a draw: the buffer as the call leaves it, and the panic
\* that ended the call, if any.
\* bitmap_data.into_slice(): the buffer as a slice of u32 pixels, row after
\* row, bitmap_width * bitmap_height of them.
into_slice(bitmap) == bitmap.bitmap_memory

Drawn(bitmap_memory, panic) == [bitmap_memory |-> bitmap_memory, panic |-> panic]

\* draw_rectangle.  overflow_checks is whether the build panics on
\* arithmetic overflow (a debug build) or wraps (a release build).  The
\* pairs (y, x) are visited with growing index y * bitmap_width + x, so the
\* pixels stored before an index leaves the buffer are those inside it.
draw_rectangle(bitmap, pos_x, pos_y, width, height, color, overflow_checks) ==
  LET bitmap_memory == into_slice(bitmap)
      y_end == usize_add(pos_y, height)
      x_end == usize_add(pos_x, width)
      ys == Range(pos_y, usize_min(y_end.val, bitmap.bitmap_height))
      xs == Range(pos_x, usize_min(x_end.val, bitmap.bitmap_width))
      indices == { (y * bitmap.bitmap_width) + x : y \in ys, x \in xs }
  IN  IF y_end.overflow /\ overflow_checks THEN Drawn(bitmap_memory, "overflow")
      ELSE IF ys = {} THEN Drawn(bitmap_memory, "none")
      ELSE IF x_end.overflow /\ overflow_checks THEN Drawn(bitmap_memory, "overflow")
      ELSE Drawn([i \in 1..Len(bitmap_memory) |->
                    IF (i - 1) \in indices THEN color ELSE bitmap_memory[i]],
                 IF \E i \in indices : i >= Len(bitmap_memory)
                   THEN "index out of bounds" ELSE "none")

\* draw_texture.  The pairs (y, x) are visited with growing indices into the
\* buffer and into texture.bitmap, so the pixels stored before an index
\* leaves either are those with both indices inside.
draw_texture(bitmap, tex, pos_x, pos_y, overflow_checks) ==
  LET bitmap_memory == into_slice(bitmap)
      y_end == usize_add(pos_y, tex.height)
      x_end == usize_add(pos_x, tex.width)
      ys == Range(pos_y, usize_min(y_end.val, bitmap.bitmap_height))
      xs == Range(pos_x, usize_min(x_end.val, bitmap.bitmap_width))
      pairs == { << y, x >> : y \in ys, x \in xs }
      index(yx) == (yx[1] * bitmap.bitmap_width) + yx[2]
      tex_index(yx) == ((yx[1] - pos_y) * tex.width) + (yx[2] - pos_x)
      inside(yx) == index(yx) < Len(bitmap_memory) /\ tex_index(yx) < Len(tex.bitmap)
  IN  IF y_end.overflow /\ overflow_checks THEN Drawn(bitmap_memory, "overflow")
      ELSE IF ys = {} THEN Drawn(bitmap_memory, "none")
      ELSE IF x_end.overflow /\ overflow_checks THEN Drawn(bitmap_memory, "overflow")
      ELSE Drawn([i \in 1..Len(bitmap_memory) |->
                    IF \E yx \in pairs : index(yx) = i - 1 /\ inside(yx)
                      THEN blend(bitmap_memory[i],
                                 tex.bitmap[tex_index(CHOOSE yx \in pairs :
                                                        index(yx) = i - 1) + 1])
                    ELSE bitmap_memory[i]],
                 IF \E yx \in pairs : ~inside(yx)
                   THEN "index out of bounds" ELSE "none")

(***************************************************************************)
(* One draw onto the window's buffer, with the texture of a loaded image.  *)
(***************************************************************************)

\* The fill colour of render's draw_rectangle call, 0xd3869b.
PlayerColor == << 0, 211, 134, 155 >>

\* A pixel of alpha 0.
PixelZ == << 90, 60, 30, 0 >>

\* Decompressed streams and headers of the images drawn: one opaque pixel;
\* two rows of two pixels of alpha 68, 128, 0 and 255; a row of two pixels;
\* and a header of height 2 over a stream of one row.
DrawImages ==
  { [w |-> 1, h |-> 1, raw |-> << 0 >> \o White],
    [w |-> 2, h |-> 2,
     raw |-> << 0 >> \o PixelP \o PixelQ \o << 0 >> \o PixelZ \o White],
    [w |-> 2, h |-> 1, raw |-> << 1 >> \o PixelP \o PixelQ],
    [w |-> 1, h |-> 2, raw |-> << 0 >> \o PixelQ] }

\* The sizes (width, height) of the window's buffer.
DrawSizes == { << 2, 2 >>, << 3, 2 >> }

\* A buffer of bitmap_width * bitmap_height pixels (resize_dib_section), no
\* two of them alike.
DrawBuffer(bitmap_width, bitmap_height) ==
  [bitmap_memory |->
     [i \in 1..(bitmap_width * bitmap_height) |-> << i, 200 + i, 16 * i, 255 - i >>],
   bitmap_width |-> bitmap_width,
   bitmap_height |-> bitmap_height]

\* Positions along an axis of dim pixels: the first and the last pixel, and
\* the first two past the end.
DrawPositions(dim) == {0, dim - 1, dim, dim + 1}

\* Extents: nothing, one pixel, two, more than any buffer, and usize::MAX.
DrawExtents == {0, 1, 2, 7, usize_MAX}

DrawInit ==
  /\ pc = "scanlines"
  /\ result = "none"
  /\ data = << >>
  /\ current_byte = 0
  /\ blocks = << >>
  /\ stream = NoStream
  /\ compressed = << >>
  /\ \E c \in DrawImages :
       /\ ihdr = [NoIHDR EXCEPT !.width = c.w, !.height = c.h,
                                !.bit_depth = 8, !.color_type = 6]
       /\ decompressed_img = c.raw
  /\ img_byte = 0
  /\ raw_img = << >>
  /\ row_idx = 0
  /\ img_data = << >>
  /\ texture = NoTexture
  /\ \E size \in DrawSizes : bitmap_data = DrawBuffer(size[1], size[2])
  /\ call = NoCall
  /\ panicked = "none"

\* draw_rectangle(bitmap_data, (pos_x, pos_y), (width, height), color)
DrawRectangle ==
  /\ pc = "done"
  /\ result = "Ok"
  /\ \E pos_x \in DrawPositions(bitmap_data.bitmap_width),
        pos_y \in DrawPositions(bitmap_data.bitmap_height),
        width \in DrawExtents, height \in DrawExtents, overflow_checks \in BOOLEAN :
       /\ \E r \in {draw_rectangle(bitmap_data, pos_x, pos_y, width, height,
                                   PlayerColor, overflow_checks)} :
            /\ bitmap_data' = [bitmap_data EXCEPT !.bitmap_memory = r.bitmap_memory]
            /\ panicked' = r.panic
       /\ call' = [op |-> "draw_rectangle", pos_x |-> pos_x, pos_y |-> pos_y,
                   width |-> width, height |-> height]
  /\ pc' = "drawn"
  /\ UNCHANGED << result, data, current_byte, ihdr, blocks, stream, compressed, imageVars >>

\* draw_texture(bitmap_data, &texture, pos_x, pos_y)
DrawTexture ==
  /\ pc = "done"
  /\ result = "Ok"
  /\ \E pos_x \in DrawPositions(bitmap_data.bitmap_width),
        pos_y \in DrawPositions(bitmap_data.bitmap_height), overflow_checks \in BOOLEAN :
       /\ \E r \in {draw_texture(bitmap_data, texture, pos_x, pos_y, overflow_checks)} :
            /\ bitmap_data' = [bitmap_data EXCEPT !.bitmap_memory = r.bitmap_memory]
            /\ panicked' = r.panic
       /\ call' = [op |-> "draw_texture", pos_x |-> pos_x, pos_y |-> pos_y,
                   width |-> texture.width, height |-> texture.height]
  /\ pc' = "drawn"
  /\ UNCHANGED << result, data, current_byte, ihdr, blocks, stream, compressed, imageVars >>

DrawNext == Scanline \/ Finish \/ MakeTexture \/ DrawRectangle \/ DrawTexture

DrawSpec == DrawInit /\ [][DrawNext]_vars

\* The end of the claim's range along an axis: min(pos + extent, dim).
ClipEnd(pos, extent, dim) ==
  IF pos < 0 \/ extent < 0 \/ pos + extent > dim THEN dim ELSE pos + extent

\* Index i (from 0) of the buffer lies in the rectangle of call c, clipped to
\* the buffer.
InClip(c, i) ==
  /\ c.pos_x >= 0
  /\ c.pos_y >= 0
  /\ c.pos_x <= i % bitmap_data.bitmap_width
  /\ i % bitmap_data.bitmap_width < ClipEnd(c.pos_x, c.width, bitmap_data.bitmap_width)
  /\ c.pos_y <= i \div bitmap_data.bitmap_width
  /\ i \div bitmap_data.bitmap_width < ClipEnd(c.pos_y, c.height, bitmap_data.bitmap_height)

\* C10 as stated: a draw changes the buffer only at indices inside the
\* rectangle of the call clipped to the buffer, and no index outside the
\* buffer or outside the texture's bitmap is used.
C10_ClippedDraw ==
  [][ /\ Len(bitmap_data'.bitmap_memory) = Len(bitmap_data.bitmap_memory)
      /\ \A i \in 1..Len(bitmap_data.bitmap_memory) :
           bitmap_data'.bitmap_memory[i] # bitmap_data.bitmap_memory[i] => InClip(call', i - 1)
      /\ panicked' # "index out of bounds" ]_vars

\* The texture pixel draw_texture blends onto index i (from 0) of the buffer
\* in call c: 0-based index into texture.bitmap.
TexIndex(c, i) ==
  (((i \div bitmap_data.bitmap_width) - c.pos_y) * texture.width)
    + ((i % bitmap_data.bitmap_width) - c.pos_x)

\* Index i of the buffer is covered by the draw_texture call c.
Covered(c, i) ==
  /\ c.op = "draw_texture"
  /\ InClip(c, i)
  /\ TexIndex(c, i) < Len(texture.bitmap)

\* C11 as stated: a pixel of the buffer covered by a texture pixel of alpha 0
\* is left as it was, all four bytes; one covered by a texture pixel of
\* alpha 255 takes the texture pixel's R, G and B.
C11_AlphaEnds ==
  [][ \A i \in 1..Len(bitmap_data.bitmap_memory) :
        (call.op = "none" /\ Covered(call', i - 1)) =>
          \A t \in {texture.bitmap[TexIndex(call', i - 1) + 1]} :
            /\ t[1] = 0 => bitmap_data'.bitmap_memory[i] = bitmap_data.bitmap_memory[i]
            /\ t[1] = 255 => SubSeq(bitmap_data'.bitmap_memory[i], 2, 4) = SubSeq(t, 2, 4) ]_vars

(***************************************************************************)
(* draw.rs: dither and find_closest_palette_color                          *)
(*                                                                         *)
(* Arithmetic on a u32 goes through its halves of 16 bits, and a u64        *)
(* distance is held as its digits << d2, d1, d0 >> in base 2^16.           *)
(***************************************************************************)

\* The upper and the lower 16 bits of a pixel.
upper16(pixel) == (pixel[1] * 256) + pixel[2]
lower16(pixel) == (pixel[3] * 256) + pixel[4]

\* The u32 of the halves hi and lo, hi reduced modulo 2^16.
u32_of(hi, lo) == << (hi \div 256) % 256, hi % 256, lo \div 256, lo % 256 >>

\* The result of an operation on u32: the wrapped value, and whether the
\* true value passes u32::MAX.
u32_result(hi, lo) == [val |-> u32_of(hi, lo % 65536), overflow |-> hi >= 65536]

\* a < b on u32.
u32_lt(a, b) ==
  upper16(a) < upper16(b) \/ (upper16(a) = upper16(b) /\ lower16(a) < lower16(b))

\* a.saturating_sub(b) on u32.
u32_saturating_sub(a, b) ==
  IF u32_lt(a, b) THEN << 0, 0, 0, 0 >>
  ELSE IF lower16(a) >= lower16(b)
    THEN u32_of(upper16(a) - upper16(b), lower16(a) - lower16(b))
  ELSE u32_of((upper16(a) - upper16(b)) - 1, (65536 + lower16(a)) - lower16(b))

\* a * k on u32, for a small k.
u32_mul(a, k) ==
  u32_result((upper16(a) * k) + ((lower16(a) * k) \div 65536), lower16(a) * k)

\* a / 16 on u32.
u32_div_16(a) ==
  u32_of(upper16(a) \div 16, ((upper16(a) % 16) * 4096) + (lower16(a) \div 16))

\* a + b on u32.
u32_add(a, b) ==
  u32_result(upper16(a) + upper16(b) + ((lower16(a) + lower16(b)) \div 65536),
             lower16(a) + lower16(b))

palette ==
  << << 0, 0, 0, 0 >>, << 0, 255, 0, 0 >>, << 0, 0, 255, 0 >>, << 0, 255, 255, 0 >>,
     << 0, 0, 0, 255 >>, << 0, 255, 0, 255 >>, << 0, 0, 255, 255 >>, << 0, 255, 255, 255 >> >>

\* (pixel & MASK).saturating_sub(palette_color & MASK) for one channel, as
\* the channel's byte: the difference itself is this byte shifted left by
\* 16 bits for RED, by 8 for GREEN and by 0 for BLUE.
channel_diff(pixel_channel, palette_channel) ==
  IF pixel_channel < palette_channel THEN 0 ELSE pixel_channel - palette_channel

\* red_diff*red_diff + green_diff*green_diff + blue_diff*blue_diff: the
\* three squares are below 2^16 and stand at 2^32, 2^16 and 2^0.
distance(pixel, palette_color) ==
  << channel_diff(pixel[2], palette_color[2]) * channel_diff(pixel[2], palette_color[2]),
     channel_diff(pixel[3], palette_color[3]) * channel_diff(pixel[3], palette_color[3]),
     channel_diff(pixel[4], palette_color[4]) * channel_diff(pixel[4], palette_color[4]) >>

\* The first value of minimum_distance, 255 * 255 + 255 * 255 + 255 * 255 + 1
\* = 195076 = 2 * 2^16 + 64004.
first_minimum_distance == << 0, 2, 64004 >>

\* The comparison of the distances with <= for <.
distance_less_or_equal(d, minimum_distance) ==
  \/ d[1] < minimum_distance[1]
  \/ d[1] = minimum_distance[1] /\ d[2] < minimum_distance[2]
  \/ d[1] = minimum_distance[1] /\ d[2] = minimum_distance[2] /\ d[3] <= minimum_distance[3]

\* distance < minimum_distance
distance_less(d, minimum_distance) ==
  \/ d[1] < minimum_distance[1]
  \/ d[1] = minimum_distance[1] /\ d[2] < minimum_distance[2]
  \/ d[1] = minimum_distance[1] /\ d[2] = minimum_distance[2] /\ d[3] < minimum_distance[3]

RECURSIVE closest_from(_, _, _, _)
\* The loop over the palette from its entry i on.
closest_from(pixel, i, nearest_color, minimum_distance) ==
  IF i > Len(palette) THEN nearest_color
  ELSE IF distance_less(distance(pixel, palette[i]), minimum_distance)
    THEN closest_from(pixel, i + 1, palette[i], distance(pixel, palette[i]))
  ELSE closest_from(pixel, i + 1, nearest_color, minimum_distance)

find_closest_palette_color(pixel) ==
  closest_from(pixel, 1, << 0, 0, 0, 0 >>, first_minimum_distance)

\* *pixel = sum, or the panic of the addition.
store_sum(d, pixel_idx, sum, overflow_checks) ==
  IF sum.overflow /\ overflow_checks THEN Drawn(d.bitmap_memory, "overflow")
  ELSE Drawn([d.bitmap_memory EXCEPT ![pixel_idx + 1] = sum.val], "none")

\* *pixel += product / 16, or the panic of the multiplication.
add_error(d, pixel_idx, product, overflow_checks) ==
  IF product.overflow /\ overflow_checks THEN Drawn(d.bitmap_memory, "overflow")
  ELSE store_sum(d, pixel_idx,
                 u32_add(d.bitmap_memory[pixel_idx + 1], u32_div_16(product.val)),
                 overflow_checks)

\* if in_buffer { if let Some(pixel) = bitmap_memory.get_mut(pixel_idx) {
\*   *pixel += quant_error * k / 16 } }
diffuse(d, in_buffer, pixel_idx, quant_error, k, overflow_checks) ==
  IF d.panic # "none" \/ ~in_buffer \/ pixel_idx >= Len(d.bitmap_memory) THEN d
  ELSE add_error(d, pixel_idx, u32_mul(quant_error, k), overflow_checks)

\* The four additions to the neighbours of pixel (y, x).
diffuse_all(d, quant_error, bitmap_width, bitmap_height, y, x, overflow_checks) ==
  diffuse(
    diffuse(
      diffuse(
        diffuse(d, x < bitmap_width - 1, (y * bitmap_width) + (x + 1),
                quant_error, 7, overflow_checks),
        x > 0 /\ y < bitmap_height - 1, ((y + 1) * bitmap_width) + (x - 1),
        quant_error, 3, overflow_checks),
      y < bitmap_height - 1, ((y + 1) * bitmap_width) + x,
      quant_error, 5, overflow_checks),
    x < bitmap_width - 1 /\ y < bitmap_height - 1, ((y + 1) * bitmap_width) + (x + 1),
    quant_error, 1, overflow_checks)

\* The body of dither's loops for pixel (y, x).
dither_pixel(bitmap_memory, bitmap_width, bitmap_height, y, x, overflow_checks) ==
  LET quantize(old_pixel, new_pixel) ==
        diffuse_all(Drawn([bitmap_memory EXCEPT ![(y * bitmap_width) + x + 1] = new_pixel],
                          "none"),
                    u32_saturating_sub(old_pixel, new_pixel),
                    bitmap_width, bitmap_height, y, x, overflow_checks)
  IN  quantize(bitmap_memory[(y * bitmap_width) + x + 1],
               find_closest_palette_color(bitmap_memory[(y * bitmap_width) + x + 1]))

RECURSIVE dither_from(_, _, _, _, _, _, _, _, _)
\* dither's loops from pixel (y, x) on, over the rows below y_end and the
\* columns x_start..x_end.
dither_from(d, bitmap_width, bitmap_height, x_start, x_end, y_end, y, x, overflow_checks) ==
  IF d.panic # "none" \/ y >= y_end THEN d
  ELSE IF x >= x_end
    THEN dither_from(d, bitmap_width, bitmap_height, x_start, x_end, y_end,
                     y + 1, x_start, overflow_checks)
  ELSE dither_from(dither_pixel(d.bitmap_memory, bitmap_width, bitmap_height, y, x,
                                overflow_checks),
                   bitmap_width, bitmap_height, x_start, x_end, y_end,
                   y, x + 1, overflow_checks)

\* dither.  As in draw_rectangle, y + height and x + width panic on overflow
\* in a build with overflow checks and wrap in one without.
dither(bitmap, x, y, width, height, overflow_checks) ==
  LET bitmap_memory == into_slice(bitmap)
      y_end == usize_add(y, height)
      x_end == usize_add(x, width)
      ys == Range(y, usize_min(y_end.val, bitmap.bitmap_height))
      xs == Range(x, usize_min(x_end.val, bitmap.bitmap_width))
  IN  IF y_end.overflow /\ overflow_checks THEN Drawn(bitmap_memory, "overflow")
      ELSE IF ys = {} THEN Drawn(bitmap_memory, "none")
      ELSE IF x_end.overflow /\ overflow_checks THEN Drawn(bitmap_memory, "overflow")
      ELSE IF xs = {} THEN Drawn(bitmap_memory, "none")
      ELSE dither_from(Drawn(bitmap_memory, "none"), bitmap.bitmap_width,
                       bitmap.bitmap_height, x, usize_min(x_end.val, bitmap.bitmap_width),
                       usize_min(y_end.val, bitmap.bitmap_height), y, x, overflow_checks)

(***************************************************************************)
(* One call of dither on a buffer                                          *)
(***************************************************************************)

\* The mid-gray 0x808080.
Gray == << 0, 128, 128, 128 >>

\* Buffers of 3 x 2 pixels: solid mid-gray; pixels of top byte 0 with
\* channels of 0, 1, 2, 128 and 255; the buffer of DrawBuffer, its top bytes
\* 1 to 6; and pixels of top bytes 0, 37 and 255.
DitherBuffers ==
  { [bitmap_memory |-> << Gray, Gray, Gray, Gray, Gray, Gray >>,
     bitmap_width |-> 3, bitmap_height |-> 2],
    [bitmap_memory |-> << << 0, 0, 0, 1 >>, << 0, 0, 2, 0 >>, << 0, 1, 0, 255 >>,
                          << 0, 0, 0, 0 >>, << 0, 128, 1, 0 >>, << 0, 255, 255, 254 >> >>,
     bitmap_width |-> 3, bitmap_height |-> 2],
    DrawBuffer(3, 2),
    [bitmap_memory |-> << << 255, 1, 2, 3 >>, << 0, 9, 8, 7 >>, Gray,
                          << 37, 0, 0, 0 >>, << 0, 0, 0, 0 >>, << 255, 255, 255, 255 >> >>,
     bitmap_width |-> 3, bitmap_height |-> 2],
    DrawBuffer(2, 2),
    [bitmap_memory |-> << Gray, << 0, 127, 127, 127 >>, << 0, 129, 129, 129 >>, Gray >>,
     bitmap_width |-> 2, bitmap_height |-> 2] }

DitherInit ==
  /\ pc = "done"
  /\ result = "Ok"
  /\ data = << >>
  /\ current_byte = 0
  /\ ihdr = NoIHDR
  /\ blocks = << >>
  /\ stream = NoStream
  /\ compressed = << >>
  /\ decompressed_img = << >>
  /\ img_byte = 0
  /\ raw_img = << >>
  /\ row_idx = 0
  /\ img_data = << >>
  /\ texture = NoTexture
  /\ bitmap_data \in DitherBuffers
  /\ call = NoCall
  /\ panicked = "none"

\* dither(bitmap_data, x, y, width, height)
Dither ==
  /\ pc = "done"
  /\ result = "Ok"
  /\ \E x \in DrawPositions(bitmap_data.bitmap_width),
        y \in DrawPositions(bitmap_data.bitmap_height),
        width \in DrawExtents, height \in DrawExtents, overflow_checks \in BOOLEAN :
       /\ \E r \in {dither(bitmap_data, x, y, width, height, overflow_checks)} :
            /\ bitmap_data' = [bitmap_data EXCEPT !.bitmap_memory = r.bitmap_memory]
            /\ panicked' = r.panic
       /\ call' = [op |-> "dither", pos_x |-> x, pos_y |-> y,
                   width |-> width, height |-> height]
  /\ pc' = "dithered"
  /\ UNCHANGED << result, data, current_byte, ihdr, blocks, stream, compressed, imageVars >>

DitherNext == Dither

DitherSpec == DitherInit /\ [][DitherNext]_vars

\* The step is a call of dither whose ranges y..y + height and x..x + width
\* do not pass usize::MAX.
DitherCalled ==
  /\ call.op = "none"
  /\ call'.op = "dither"
  /\ ~usize_add(call'.pos_y, call'.height).overflow
  /\ ~usize_add(call'.pos_x, call'.width).overflow

\* C12 as stated: dither leaves every pixel outside the requested region,
\* clipped to the buffer, as it was before the call.
C12_DitherClipped ==
  [][ DitherCalled =>
        \A i \in 1..Len(bitmap_data.bitmap_memory) :
          ~InClip(call', i - 1) =>
            bitmap_data'.bitmap_memory[i] = bitmap_data.bitmap_memory[i] ]_vars

\* The pixels (indices from 1) of the region of call c, clipped.
Region(c) == { i \in 1..Len(bitmap_data.bitmap_memory) : InClip(c, i - 1) }

\* C13 as stated: dithering a region of two or more pixels of a buffer of
\* solid mid-gray leaves both black and white pixels in the region.
C13_GrayMix ==
  [][ ( /\ DitherCalled
        /\ \A i \in 1..Len(bitmap_data.bitmap_memory) : bitmap_data.bitmap_memory[i] = Gray
        /\ Cardinality(Region(call')) >= 2 ) =>
        /\ \E i \in Region(call') : bitmap_data'.bitmap_memory[i] = << 0, 0, 0, 0 >>
        /\ \E i \in Region(call') : bitmap_data'.bitmap_memory[i] = << 0, 255, 255, 255 >> ]_vars

\* C17 as stated: whatever the pixels of the buffer and the region, no
\* multiplication or addition of dither overflows (in a build with overflow
\* checks an overflow is a panic), and the buffer keeps its length.
C17_NoOverflow ==
  [][ DitherCalled =>
        /\ panicked' = "none"
        /\ Len(bitmap_data'.bitmap_memory) = Len(bitmap_data.bitmap_memory) ]_vars

\* Pixel values: top bytes 0, 1 and 255 over channels 0, 1, 2, 128 and 255.
PixelSamples ==
  { << a, r, g, b >> : a \in {0, 1, 255}, r \in {0, 1, 2, 128, 255},
                       g \in {0, 1, 2, 128, 255}, b \in {0, 1, 2, 128, 255} }

\* The palette colour with 0xFF in the channels where pixel is not 0.
Saturated(pixel) ==
  << 0, IF pixel[2] # 0 THEN 255 ELSE 0, IF pixel[3] # 0 THEN 255 ELSE 0,
     IF pixel[4] # 0 THEN 255 ELSE 0 >>

\* C18: find_closest_palette_color gives the palette colour with 0xFF in the
\* channels that are not 0; the quantization error of a pixel of top byte 0
\* is 0; and a call of dither on a buffer of such pixels turns each pixel of
\* the region into that palette colour and changes no other pixel.
C18_Saturates ==
  /\ \A pixel \in PixelSamples :
       /\ find_closest_palette_color(pixel) = Saturated(pixel)
       /\ pixel[1] = 0 =>
            u32_saturating_sub(pixel, find_closest_palette_color(pixel)) = << 0, 0, 0, 0 >>
  /\ [][ ( /\ DitherCalled
           /\ \A i \in 1..Len(bitmap_data.bitmap_memory) : bitmap_data.bitmap_memory[i][1] = 0 ) =>
           /\ panicked' = "none"
           /\ \A i \in 1..Len(bitmap_data.bitmap_memory) :
                bitmap_data'.bitmap_memory[i] =
                  IF i \in Region(call') THEN Saturated(bitmap_data.bitmap_memory[i])
                  ELSE bitmap_data.bitmap_memory[i] ]_vars

\* dither has turned pixels of top byte 0 and of channels 1, 2, 128 and 254
\* into palette colours, black, blue and yellow among them.
C18_Witness ==
  /\ call.op = "dither"
  /\ panicked = "none"
  /\ bitmap_data.bitmap_memory =
       << << 0, 0, 0, 255 >>, << 0, 0, 255, 0 >>, << 0, 255, 0, 255 >>,
          << 0, 0, 0, 0 >>, << 0, 255, 255, 0 >>, << 0, 255, 255, 255 >> >>

(***************************************************************************)
(* The cursor reads of mod parser, called in any order                     *)
(***************************************************************************)

\* Byte sequences: a well-formed file, each of its prefixes, altered
\* signatures, and first chunks with wrong or overlong lengths.
CursorFiles ==
  {BaseFile} \cup SignatureFiles
    \cup { expected_png_signature \o first :
             first \in { ChunkWith(200, TagOther, << 7, 9 >>, Crc32(TagOther, << 7, 9 >>)),
                         ChunkWith(14, TagIHDR, IhdrPayload(1, 1, 8, 6, 0),
                                   Crc32(TagIHDR, IhdrPayload(1, 1, 8, 6, 0))),
                         Chunk(TagIEND, << 0 >>),
                         ChunkWith(2147483647, TagIDAT, << 1 >>, << 0, 0, 0, 0 >>) } }

\* The lengths asked of get_slice.
SliceLens == {0, 3, 13, 1073741824}

CursorInit ==
  /\ pc = "reads"
  /\ result = "none"
  /\ data \in CursorFiles
  /\ current_byte = 0
  /\ ihdr = NoIHDR
  /\ blocks = << >>
  /\ stream = NoStream
  /\ compressed = << >>
  /\ decompressed_img = << >>
  /\ img_byte = 0
  /\ raw_img = << >>
  /\ row_idx = 0
  /\ img_data = << >>
  /\ texture = NoTexture
  /\ NoDraw

\* The call op has returned r: the cursor it leaves and its result.
Returned(op, r) ==
  /\ current_byte' = r.cur
  /\ result' = IF r.ok THEN "Ok" ELSE r.err
  /\ call' = [NoCall EXCEPT !.op = op]
  /\ UNCHANGED << pc, data, ihdr, blocks, stream, compressed, imageVars,
                  bitmap_data, panicked >>

GetU8 == pc = "reads" /\ \E r \in {get_u8(current_byte, data)} : Returned("get_u8", r)

GetU32 == pc = "reads" /\ \E r \in {get_u32(current_byte, data)} : Returned("get_u32", r)

GetSlice ==
  /\ pc = "reads"
  /\ \E len \in SliceLens :
       \E r \in {get_slice(current_byte, data, len)} : Returned("get_slice", r)

ParseMagic ==
  pc = "reads" /\ \E r \in {parse_magic(current_byte, data)} : Returned("parse_magic", r)

ParseBlock ==
  pc = "reads" /\ \E r \in {parse_block(current_byte, data)} : Returned("parse_block", r)

CursorNext == GetU8 \/ GetU32 \/ GetSlice \/ ParseMagic \/ ParseBlock

CursorSpec == CursorInit /\ [][CursorNext]_vars

\* The read r, which needs n bytes at the cursor, fails with FileEnd and
\* leaves the cursor alone when fewer than n bytes remain, and moves the
\* cursor n bytes on otherwise.
ReadsInBounds(r, n) ==
  IF current_byte + n > Len(data) THEN r = Err(current_byte, "FileEnd")
  ELSE r.ok /\ r.cur = current_byte + n

\* C14: the cursor never passes the end of the data, whatever calls have been
\* made and whichever is made next; and a get_u8, get_u32 or get_slice that
\* needs more bytes than remain returns FileEnd and leaves the cursor where
\* it was.
C14_CursorInBounds ==
  /\ [](/\ current_byte <= Len(data)
        /\ ReadsInBounds(get_u8(current_byte, data), 1)
        /\ ReadsInBounds(get_u32(current_byte, data), 4)
        /\ \A len \in SliceLens : ReadsInBounds(get_slice(current_byte, data, len), len)
        /\ parse_magic(current_byte, data).cur <= Len(data)
        /\ parse_block(current_byte, data).cur <= Len(data))
  /\ [][ (call'.op \in {"get_u8", "get_u32", "get_slice"} /\ result' = "FileEnd") =>
           current_byte' = current_byte ]_vars

\* A get_u8 has failed with FileEnd at the end of a file that reads have
\* gone through.
C14_Witness ==
  /\ call.op = "get_u8"
  /\ result = "FileEnd"
  /\ Len(data) > 8
  /\ current_byte = Len(data)

(***************************************************************************)
(* Termination of the load                                                 *)
(***************************************************************************)

\* load_from_path runs to its return: no step waits on anything.
FairSpec == Spec /\ WF_vars(Next)

RECURSIVE NoEndFrom(_)
\* From 0-based offset off on the file holds chunks of types other than IEND
\* and IHDR with good checksums, and then ends, at a chunk boundary or
\* inside a chunk.
NoEndFrom(off) ==
  IF off + 8 > Len(data) THEN TRUE
  ELSE IF SubSeq(data, off + 5, off + 8) \in {TagIEND, TagIHDR} THEN FALSE
  ELSE IF off + 12 + DeclaredLen(off) > Len(data) THEN TRUE
  ELSE ChunkChecksumGood(off) /\ NoEndFrom(off + 12 + DeclaredLen(off))

\* C15: every load returns, with Ok or an Error; a pass of the chunk loop
\* that does not fail moves the cursor on by a whole chunk, the loop keeps
\* no end chunk and leaves at the first one, after which the cursor stays
\* (what follows the end chunk is never read); a file without end chunk ends
\* in FileEnd; and a pass of the scanline loop that does not fail moves the
\* cursor of the decompressed data on, never past its end.
C15_Terminates ==
  /\ <>(pc = "done" /\ result # "none")
  /\ [][ (pc = "chunks" /\ pc' # "done") => current_byte' >= current_byte + 12 ]_vars
  /\ [](\A i \in 1..Len(blocks) : blocks[i].block.kind # "IEND")
  /\ [](pc = "decompress" =>
          /\ current_byte <= Len(data)
          /\ Slice(data, current_byte - 12, current_byte - 4) = << 0, 0, 0, 0 >> \o TagIEND)
  /\ [][ pc \notin {"magic", "header", "chunks"} => current_byte' = current_byte ]_vars
  /\ []((HeaderChunkGood /\ ~HeaderUnsupported /\ NoEndFrom(33) /\ pc # "magic" /\ pc # "header") =>
          /\ pc \in {"chunks", "done"}
          /\ pc = "done" => result = "FileEnd")
  /\ [][ (pc = "scanlines" /\ pc' = "scanlines") =>
           /\ img_byte' > img_byte
           /\ img_byte' <= Len(decompressed_img) ]_vars

\* A load has returned Ok after two passes of the chunk loop that kept a
\* chunk and a pass of the scanline loop, with bytes after the end chunk
\* left unread.
C15_Witness ==
  /\ pc = "done"
  /\ result = "Ok"
  /\ Len(blocks) >= 2
  /\ row_idx >= 1
  /\ current_byte < Len(data)


(***************************************************************************)
(* Png::load_from_path as a function of the file, for comparing the loads  *)
(* of two files.                                                           *)
(***************************************************************************)

\* What a load gives: the Error, or Ok with the size and the bytes of the Png.
Outcome(res, header, img) ==
  [result |-> res, width |-> header.width, height |-> header.height, img_data |-> img]

Failed(e) == Outcome(e, NoIHDR, << >>)

RECURSIVE chunk_loop(_, _, _)
\* The chunk loop from cursor cur on: the blocks pushed when it breaks on IEND.
chunk_loop(cur, file, list) ==
  LET next(r) ==
        IF ~r.ok THEN r
        ELSE IF r.val.block.kind = "IEND" THEN Ok(r.cur, list)
        ELSE chunk_loop(r.cur, file, Append(list, r.val))
  IN  Strict(next, parse_block(cur, file))

RECURSIVE stream_bytes(_, _, _)
\* The decoder reading the stream with a buffer of MaxBuf bytes until a read
\* returns 0: the bytes it has been given.
stream_bytes(self, list, out) ==
  LET next(r) ==
        IF r.written = << >> THEN out
        ELSE stream_bytes(r.stream, list, out \o r.written)
  IN  Strict(next, IDATBlockStream_read(self, list, MaxBuf))

RECURSIVE scanline_loop(_, _, _, _, _)
\* The scanline loop from byte cur of the decompressed image on.
scanline_loop(cur, img, width, out, row) ==
  IF cur = Len(img) THEN Ok(cur, out)
  ELSE LET next(r) ==
             IF ~r.ok THEN r ELSE scanline_loop(r.cur, img, width, r.val, row + 1)
       IN  Strict(next, scanline(cur, img, width, out, row))

\* load_from_path from decompress_img_data on.
load_image(header, list) ==
  UNION { IF ~s.ok THEN {Failed(s.err)}
          ELSE UNION { IF ~z.ok THEN {Failed(z.err)}
                       ELSE { IF ~p.ok THEN Failed(p.err)
                              ELSE Outcome("Ok", header, reverse_rgb(p.val)) :
                                p \in {scanline_loop(0, z.val, header.width, << >>, 0)} } :
                         z \in read_to_end(stream_bytes(s.val, list, << >>)) } :
            s \in {IDATBlockStream_new(list)} }

\* load_from_path from the first parse_block on.
load_blocks(cur, file) ==
  UNION { IF ~h.ok THEN {Failed(h.err)}
          ELSE IF h.val.block.kind # "IHDR" THEN {Failed("ExpectedIHDR")}
          ELSE IF not_rgba8(h.val.block.ihdr) THEN {Failed("OnlyRGBA")}
          ELSE IF h.val.block.ihdr.interlace_method # 0
            THEN {Failed("InterlaceNotSupported")}
          ELSE UNION { IF ~c.ok THEN {Failed(c.err)}
                       ELSE load_image(h.val.block.ihdr, c.val) :
                         c \in {chunk_loop(h.cur, file, << >>)} } :
            h \in {parse_block(cur, file)} }

\* Png::load_from_path on the bytes of a file: the outcomes it can have.
load_from_path(file) ==
  UNION { IF ~m.ok THEN {Failed(m.err)} ELSE load_blocks(m.cur, file) :
            m \in {parse_magic(0, file)} }

(***************************************************************************)
(* Chunks of unknown type                                                  *)
(***************************************************************************)

RECURSIVE without_unknown_from(_, _)
\* The bytes of file from offset off on, without the complete chunks of a
\* type other than IHDR, IDAT and IEND whose checksum is right, up to the end
\* chunk or the first chunk that is damaged.
without_unknown_from(file, off) ==
  LET len == as_usize(from_be_bytes(file, off))
      tag == Slice(file, off + 4, off + 8)
      body == Slice(file, off + 8, off + 8 + len)
      rest == Slice(file, off, Len(file))
  IN  IF off + 8 > Len(file) THEN rest
      ELSE IF tag \in {TagIHDR, TagIEND} \/ off + 12 + len > Len(file) THEN rest
      ELSE IF tag = TagIDAT
        THEN Slice(file, off, off + 12 + len) \o without_unknown_from(file, off + 12 + len)
      ELSE IF Slice(file, off + 8 + len, off + 12 + len) = Crc32(tag, body)
        THEN without_unknown_from(file, off + 12 + len)
      ELSE rest

\* The file without the unknown chunks that follow its header chunk.
without_unknown(file) ==
  LET h == parse_block(8, file)
  IN  IF Len(file) >= 8 /\ SubSeq(file, 1, 8) = expected_png_signature
         /\ h.ok /\ h.val.block.kind = "IHDR"
        THEN SubSeq(file, 1, h.cur) \o without_unknown_from(file, h.cur)
      ELSE file

\* The outcome of the run, once it has ended.
Loaded ==
  IF result = "Ok" THEN Outcome("Ok", ihdr, img_data) ELSE Failed(result)

\* C16: a file with chunks of unknown type and a right checksum between its
\* header chunk and its end chunk loads to what the same file without those
\* chunks loads to, whether to an image or to an error: the run on the file
\* ends in an outcome of load_from_path on the file, and load_from_path has
\* the same outcomes on the file without them.
C16_UnknownIgnored ==
  pc = "done" =>
    /\ Loaded \in load_from_path(data)
    /\ load_from_path(data) = load_from_path(without_unknown(data))

\* A file with three unknown chunks, before, between and after its two IDAT
\* chunks, has loaded to an image.
C16_Witness ==
  /\ pc = "done" /\ result = "Ok" /\ Len(img_data) >= 4
  /\ Len(blocks) = 5
  /\ \A i \in {1, 3, 5} : blocks[i].block.kind = "Unknown"
  /\ Len(without_unknown(data)) = Len(data) - (3 * Len(OtherChunk))

=============================================================================
